---------------------------- MODULE Spec2Model ----------------------------
(***************************************************************************)
(* PoolMonitor (src/src/monitor/pool_monitor.py): the asyncio discovery    *)
(* loop, the per-pool monitoring tasks, the work queue with its background *)
(* worker thread, the callback registry and stop_monitoring.               *)
(*                                                                         *)
(* Coroutines run on one event loop: a step of the model is the code a     *)
(* coroutine runs between two suspension points (awaits that really        *)
(* suspend).  The worker is a thread of its own.  CancelledError is a      *)
(* BaseException (Python >= 3.8), so "except Exception" does not catch it. *)
(***************************************************************************)
EXTENDS Integers, Sequences, FiniteSets, TLC

\* ------------------------------------------------------------ bounds
NPools == 1          \* pool addresses that occur in the address's swaps
NSigs == 1           \* transactions the monitored address ever signs
MaxPolls == 2        \* polling iterations of the discovery loop in a run
MaxFails == 3        \* consecutive failures of one pool task that are counted
MaxTasksPerPool == 2 \* task objects ever created for one pool address
MaxCallbacks == 2    \* add_callback calls in a run
MaxCallLog == 2      \* callback invocations logged before publishing stops
MaxBufLen == 3       \* bytes of an instruction's data handed to the decoders
MaxMonitors == 2     \* TransactionMonitor objects built for the wallet
MaxStopCalls == 1    \* stop() and stop_monitoring calls on a TransactionMonitor
MaxStartCalls == 3   \* start() calls made on one TransactionMonitor
MaxRestarts == 1     \* start_monitoring calls made on a PoolMonitor after the first
MaxPoolStops == 2    \* stop_monitoring calls made on a PoolMonitor
MaxWalletStarts == 2 \* start() calls made on one WalletMonitor
MaxIterations == 5   \* iterations of a WalletMonitor's loop in a run
MaxTopLevel == 3     \* top-level instructions of a transaction
MaxLogLines == 5     \* lines of a transaction's log

\* ------------------------------------------------------------ environment
\* PoolMonitor(rpc_url): max_workers keeps its default.
max_workers == 10
\* abs(price_change) >= 0.02, in percent
AlertThresholdPct == 2

\* Queue(): queue.Queue's maxsize keeps its default; a maxsize <= 0 is a
\* queue without capacity limit.
maxsize == 0

\* An address that trades on one pool more than max_workers.
WidePools == max_workers + 1

\* The pool the swap instruction of transaction s names, for an address
\* that trades on npools pools.
PoolOfSig(s, npools) == ((s - 1) % npools) + 1

\* Slots at which a pool account's state can be served by the RPC node, and
\* the price (in tenths) the account shows at each: 100.0, 98.0, 99.5.
Slots == {3, 5, 7}
PriceAt(s) == CASE s = 3 -> 1000 [] s = 5 -> 980 [] OTHER -> 995

\* collect_market_data's result: has = FALSE is a result without
\* price_data.current_price ({} or price_data = {}).
EmptyData == [has |-> FALSE, price |-> 0, slot |-> 0]
DataAt(s) == [has |-> TRUE, price |-> PriceAt(s), slot |-> s]
MarketData == {DataAt(s) : s \in Slots} \cup {EmptyData}

EventTypes == {"pool_update", "trade_detected", "price_alert", "error"}

VARIABLES
    active,           \* self.active
    monitored_pools,  \* self.monitored_pools: dict pool -> market_data
    pool_tasks,       \* self.pool_tasks: dict pool -> index of the task in tasks[pool]
    tasks,            \* per pool, the asyncio.Task objects created for it, in creation order
    data_queue,       \* self.data_queue: items (signatures) not yet taken
    unfinished_tasks, \* Queue.unfinished_tasks: puts minus task_done calls
    callbacks,        \* self.callbacks: event type -> list of callbacks
    chain,            \* number of transactions the address has signed so far
    disc,             \* the coroutine start_monitoring/_monitor_address_trades
    worker,           \* the thread running _process_data_queue
    stop,             \* the stop_monitoring calls: the latest and the earlier ones
    polls,            \* get_signatures_for_address calls made so far
    puts,             \* per signature, the data_queue.put calls made for it
    trade_events,     \* per signature, the trade_detected publications
    stored,           \* per signature, the items handed to db.store_* and task_done
    alerts,           \* the price_alert events published
    cb_calls,         \* ids of the callbacks invoked so far, in invocation order
    cb_escaped,       \* the last _trigger_callbacks call ended with an exception
    tx,               \* a raw transaction (getTransaction's answer) handed to the parsers
    norm,             \* dict: parser that has run on tx -> what it returned
    account,          \* a pool account (get_account_info's answer) handed to the decoders
    decoded,          \* dict: decoder that has run on account -> what it returned
    ix,               \* an instruction handed to the decoders: its data bytes and IDL args
    ix_parsed,        \* dict: decoder that has run on ix -> what it returned
    tmon,             \* a TransactionMonitor (fetcher/monitor.py) and its event loop
    wmon,             \* a WalletMonitor (monitor/wallet_monitor.py) and its loop
    bparse,           \* a BaseParser call (parser/base.py): its input and result
    threads           \* the threads earlier start_monitoring calls have started

\* The parsers' input and results: the monitor's own steps leave them alone.
parserVars == <<tx, norm, account, decoded, ix, ix_parsed>>

MonitorVars == <<active, monitored_pools, pool_tasks, tasks, data_queue,
                 unfinished_tasks, callbacks, chain, disc, worker, stop, polls,
                 puts, trade_events, stored, alerts, cb_calls, cb_escaped>>

\* The monitors and parsers of the other modules, objects of their own that
\* share no state with a PoolMonitor, and the worker threads of a
\* PoolMonitor's earlier runs, which a single start_monitoring call leaves
\* alone.
otherVars == <<tmon, wmon, bparse, threads>>

vars == <<MonitorVars, parserVars, otherVars>>

\* The pool addresses and the signatures of the run.
Pools == DOMAIN tasks
Sigs == DOMAIN puts

\* ------------------------------------------------------------ dict helpers
EmptyDict == [x \in {} |-> 0]
DictSet(d, k, v) == [x \in (DOMAIN d) \cup {k} |-> IF x = k THEN v ELSE d[x]]
DictDel(d, k) == [x \in (DOMAIN d) \ {k} |-> d[x]]

Inc(f, k) == [f EXCEPT ![k] = @ + 1]

\* No transaction was handed to the parsers, and none of them has run.
NoTx == [signature |-> "None"]
NotRunYet == EmptyDict

\* No instruction was handed to the decoders.
NoIx == [data |-> <<>>, args |-> <<>>]

\* get_account_info found no account (account_info.value is None).
NoAccount == [exists |-> FALSE, owner |-> "None", kind |-> "none",
              tokenAReserve |-> <<>>, tokenBReserve |-> <<>>,
              tokenADecimals |-> <<>>, tokenBDecimals |-> <<>>,
              currentPrice |-> <<>>]

\* ------------------------------------------------------------ Init
\* PoolMonitor.__init__, for an address that trades on npools pools in
\* nsigs transactions.
InitMonitor(npools, nsigs) ==
    /\ active = FALSE
    /\ monitored_pools = EmptyDict
    /\ pool_tasks = EmptyDict
    /\ tasks = [p \in 1..npools |-> <<>>]
    /\ data_queue = <<>>
    /\ unfinished_tasks = 0
    /\ callbacks = [e \in EventTypes |-> <<>>]
    /\ chain = 0
    /\ disc = [pc |-> "idle", batch |-> <<>>]
    /\ worker = [pc |-> "none", item |-> 0]
    /\ stop = [pc |-> "idle", waiting |-> {}, calls |-> 0, earlier |-> <<>>]
    /\ polls = 0
    /\ puts = [s \in 1..nsigs |-> 0]
    /\ trade_events = [s \in 1..nsigs |-> 0]
    /\ stored = [s \in 1..nsigs |-> 0]
    /\ alerts = {}
    /\ cb_calls = <<>>
    /\ cb_escaped = FALSE

\* TransactionMonitor.__init__(wallet_address): the flag and the three
\* subscriptions (FALSE: None).  stops counts the stop() calls made on the
\* object from outside start().
TransactionMonitorInit ==
    [active |-> FALSE, account_subscription |-> FALSE,
     amm_subscription |-> FALSE, log_subscription |-> FALSE, stops |-> 0]

\* fetcher/monitor.py as imported: monitors = {}, no TransactionMonitor was
\* built, no call is in progress, no _monitor_loop task exists.
MonitorsInit ==
    [monitors |-> 0, objs |-> <<>>, calls |-> <<>>, loops |-> <<>>]

\* WalletMonitor.__init__(wallet_address, db): no start() call was made.
\* failed_in_a_row counts the loop iterations that failed since the last one
\* that succeeded.
WalletMonitorInit ==
    [is_running |-> FALSE, retry_count |-> 0, calls |-> <<>>,
     iterations |-> 0, failed_in_a_row |-> 0]

\* No BaseParser method was called: no input, and no result (<<>>).
NoParse == [input |-> <<>>, result |-> <<>>]

InitOther ==
    /\ tmon = MonitorsInit
    /\ wmon = WalletMonitorInit
    /\ bparse = NoParse
    /\ threads = <<>>

\* No transaction is handed to the parsers.
InitFor(npools, nsigs) ==
    /\ InitMonitor(npools, nsigs)
    /\ InitOther
    /\ tx = NoTx
    /\ norm = NotRunYet
    /\ account = NoAccount
    /\ decoded = NotRunYet
    /\ ix = NoIx
    /\ ix_parsed = NotRunYet

Init == InitFor(NPools, NSigs)
InitPool == InitFor(1, NSigs)
InitWide == InitFor(WidePools, WidePools)

\* ------------------------------------------------------------ callbacks
\* A registered callback: id is its registration number, raises tells what
\* calling it raises: nothing ("none"), an exception of a class derived from
\* Exception ("Exception"), or one derived from BaseException only
\* ("BaseException": SystemExit, KeyboardInterrupt, GeneratorExit,
\* asyncio.CancelledError).
RaiseKinds == {"none", "Exception", "BaseException"}

CallbackIds(cbs) == [i \in 1..Len(cbs) |-> cbs[i].id]

RegisteredCount == Len(callbacks["pool_update"]) + Len(callbacks["trade_detected"])
                   + Len(callbacks["price_alert"]) + Len(callbacks["error"])

\* The for loop of _trigger_callbacks without its try/except: the first
\* raising callback ends the loop and the exception leaves the method.
RECURSIVE InvokeUnprotected(_)
InvokeUnprotected(cbs) ==
    IF cbs = <<>> THEN [invoked |-> <<>>, escaped |-> FALSE]
    ELSE IF Head(cbs).raises # "none"
         THEN [invoked |-> <<Head(cbs).id>>, escaped |-> TRUE]
         ELSE LET rest == InvokeUnprotected(Tail(cbs))
              IN [invoked |-> <<Head(cbs).id>> \o rest.invoked,
                  escaped |-> rest.escaped]

\* for callback in self.callbacks[event_type]: try: callback(data)
\* except Exception: logger.error(...).  The except clause catches what
\* derives from Exception and the loop goes on; any other exception ends the
\* loop and leaves the method.
RECURSIVE InvokeAll(_)
InvokeAll(cbs) ==
    IF cbs = <<>> THEN [invoked |-> <<>>, escaped |-> FALSE]
    ELSE IF Head(cbs).raises = "BaseException"
         THEN [invoked |-> <<Head(cbs).id>>, escaped |-> TRUE]
         ELSE LET rest == InvokeAll(Tail(cbs))
              IN [invoked |-> <<Head(cbs).id>> \o rest.invoked,
                  escaped |-> rest.escaped]

\* _trigger_callbacks with the callback called outside any try.
trigger_callbacks_unprotected(reg, event_type) ==
    IF event_type \in DOMAIN reg
    THEN InvokeUnprotected(reg[event_type])
    ELSE [invoked |-> <<>>, escaped |-> FALSE]

\* _trigger_callbacks(event_type, data): what it invokes, in order.
trigger_callbacks(reg, event_type) ==
    IF event_type \in DOMAIN reg
    THEN InvokeAll(reg[event_type])
    ELSE [invoked |-> <<>>, escaped |-> FALSE]

\* The effect of one _trigger_callbacks call on the invocation log;
\* cb_escaped tells whether the call ended with an exception.  Callbacks are
\* registered in SpecCb only: the monitor's own publications find the lists
\* empty.
Publish(event_type) ==
    LET r == trigger_callbacks(callbacks, event_type)
    IN /\ cb_calls' = cb_calls \o r.invoked
       /\ cb_escaped' = r.escaped

\* Two publications in a row (pool_update, then price_alert); the second is
\* not made when the first ends with an exception.
Publish2(e1, e2) ==
    LET r1 == trigger_callbacks(callbacks, e1)
        r2 == trigger_callbacks(callbacks, e2)
    IN /\ cb_calls' = IF r1.escaped THEN cb_calls \o r1.invoked
                      ELSE cb_calls \o r1.invoked \o r2.invoked
       /\ cb_escaped' = (r1.escaped \/ r2.escaped)

\* add_callback(event_type, callback)
AddCallback(event_type, raises) ==
    /\ RegisteredCount < MaxCallbacks
    /\ callbacks' = IF event_type \in DOMAIN callbacks
                    THEN [callbacks EXCEPT ![event_type] =
                            Append(@, [id |-> RegisteredCount + 1, raises |-> raises])]
                    ELSE callbacks
    /\ UNCHANGED <<parserVars, otherVars>>
    /\ UNCHANGED <<active, monitored_pools, pool_tasks, tasks, data_queue,
                   unfinished_tasks, chain, disc, worker, stop, polls, puts,
                   trade_events, stored, alerts, cb_calls, cb_escaped>>

\* _trigger_callbacks(event_type, data) called on its own.
TriggerCallbacks(event_type) ==
    /\ Len(cb_calls) < MaxCallLog
    /\ Publish(event_type)
    /\ UNCHANGED <<parserVars, otherVars>>
    /\ UNCHANGED <<active, monitored_pools, pool_tasks, tasks, data_queue,
                   unfinished_tasks, callbacks, chain, disc, worker, stop,
                   polls, puts, trade_events, stored, alerts>>

\* ------------------------------------------------------------ event loop
\* The thread of the event loop is free to run a ready coroutine.  It is not
\* while a stop_monitoring call waits in the blocking data_queue.join(), and
\* not while _process_trade is between data_queue.put and _trigger_callbacks,
\* where only the other threads run.
LoopFree ==
    /\ stop.pc # "join"
    /\ \A i \in 1..Len(stop.earlier) : stop.earlier[i].pc # "join"
    /\ disc.pc # "publish"
    /\ \A i \in 1..Len(threads) : threads[i].disc.pc # "publish"

\* get_signatures_for_address: the address's signatures, newest first.
SigList(n) == [i \in 1..n |-> n - i + 1]

\* The monitored address signs one more transaction.
NewTx(nsigs) ==
    /\ chain < nsigs
    /\ chain' = chain + 1
    /\ UNCHANGED <<parserVars, otherVars>>
    /\ UNCHANGED <<active, monitored_pools, pool_tasks, tasks, data_queue,
                   unfinished_tasks, callbacks, disc, worker, stop, polls, puts,
                   trade_events, stored, alerts, cb_calls, cb_escaped>>

\* ------------------------------------------------------------ discovery
NewTask == [pc |-> "created", cancel |-> FALSE, fails |-> 0]

\* A task is created for every observed swap, registered or not.
NeedsTaskAlways(pt, pool) == TRUE

\* if pool_address not in self.pool_tasks
NeedsTask(pt, pool) == pool \notin DOMAIN pt

\* After one signature of the batch: the next get_transaction, or
\* asyncio.sleep(1) at the end of the for loop.
DiscAdvance(rest) ==
    IF rest # <<>> THEN [pc |-> "tx", batch |-> rest]
    ELSE [pc |-> "sleep", batch |-> <<>>]

\* start_monitoring up to the first suspension of _monitor_address_trades:
\* the flag, the worker thread, the first get_signatures_for_address call.
StartMonitoring ==
    /\ LoopFree
    /\ disc.pc = "idle"
    /\ active' = TRUE
    /\ worker' = [pc |-> "check", item |-> 0]
    /\ disc' = [pc |-> "sigs", batch |-> <<>>]
    /\ polls' = polls + 1
    /\ UNCHANGED <<parserVars, otherVars>>
    /\ UNCHANGED <<monitored_pools, pool_tasks, tasks, data_queue,
                   unfinished_tasks, callbacks, chain, stop, puts,
                   trade_events, stored, alerts, cb_calls, cb_escaped>>

\* get_signatures_for_address returns: an empty answer goes to the sleep,
\* otherwise the for loop starts with get_transaction of the first signature.
DiscSignatures ==
    /\ LoopFree
    /\ disc.pc = "sigs"
    /\ disc' = DiscAdvance(SigList(chain))
    /\ UNCHANGED <<parserVars, otherVars>>
    /\ UNCHANGED <<active, monitored_pools, pool_tasks, tasks, data_queue,
                   unfinished_tasks, callbacks, chain, worker, stop, polls,
                   puts, trade_events, stored, alerts, cb_calls, cb_escaped>>

\* get_signatures_for_address or get_transaction raises: the try is around
\* the while loop, so the handler logs, publishes "error" and the coroutine ends.
DiscRaise ==
    /\ LoopFree
    /\ disc.pc \in {"sigs", "tx"}
    /\ disc' = [pc |-> "done", batch |-> <<>>]
    /\ Publish("error")
    /\ UNCHANGED <<parserVars, otherVars>>
    /\ UNCHANGED <<active, monitored_pools, pool_tasks, tasks, data_queue,
                   unfinished_tasks, callbacks, chain, worker, stop, polls,
                   puts, trade_events, stored, alerts>>

\* The three "continue" branches: no transaction, no swap instruction, a swap
\* without pool address.
DiscSkip ==
    /\ LoopFree
    /\ disc.pc = "tx"
    /\ \E why \in {"not tx", "not swap_data", "not pool_address"} :
          disc' = DiscAdvance(Tail(disc.batch))
    /\ UNCHANGED <<parserVars, otherVars>>
    /\ UNCHANGED <<active, monitored_pools, pool_tasks, tasks, data_queue,
                   unfinished_tasks, callbacks, chain, worker, stop, polls,
                   puts, trade_events, stored, alerts, cb_calls, cb_escaped>>

\* self.data_queue.put(item) with block=True: the caller waits while the
\* queue has a capacity and holds that many items.
PutBlocks(q) == maxsize > 0 /\ Len(q) >= maxsize

\* A swap was parsed: create and register the pool's task when the pool has
\* no entry, then _process_trade up to the return of data_queue.put, which
\* hands the item to the worker threads.
DiscSwap(npools) ==
    /\ LoopFree
    /\ disc.pc = "tx"
    /\ LET sig == Head(disc.batch)
           pool == PoolOfSig(sig, npools)
       IN /\ IF NeedsTask(pool_tasks, pool)
             THEN /\ Len(tasks[pool]) < MaxTasksPerPool
                  /\ tasks' = [tasks EXCEPT ![pool] = Append(@, NewTask)]
                  /\ pool_tasks' = DictSet(pool_tasks, pool, Len(tasks[pool]) + 1)
             ELSE UNCHANGED <<tasks, pool_tasks>>
          /\ ~PutBlocks(data_queue)
          /\ data_queue' = Append(data_queue, sig)
          /\ unfinished_tasks' = unfinished_tasks + 1
          /\ puts' = Inc(puts, sig)
          /\ disc' = [pc |-> "publish", batch |-> disc.batch]
    /\ UNCHANGED <<parserVars, otherVars>>
    /\ UNCHANGED <<active, monitored_pools, callbacks, chain, worker, stop,
                   polls, trade_events, stored, alerts, cb_calls, cb_escaped>>

\* The rest of _process_trade: _trigger_callbacks('trade_detected', ...), and
\* the for loop goes on to the next signature or to the sleep.
DiscTradeDetected ==
    /\ disc.pc = "publish"
    /\ trade_events' = Inc(trade_events, Head(disc.batch))
    /\ Publish("trade_detected")
    /\ disc' = DiscAdvance(Tail(disc.batch))
    /\ UNCHANGED <<parserVars, otherVars>>
    /\ UNCHANGED <<active, monitored_pools, pool_tasks, tasks, data_queue,
                   unfinished_tasks, callbacks, chain, worker, stop, polls,
                   puts, stored, alerts>>

\* asyncio.sleep(1) is over: the while condition, then the next poll or the end.
DiscWake ==
    /\ LoopFree
    /\ disc.pc = "sleep"
    /\ IF active
       THEN /\ polls < MaxPolls
            /\ disc' = [pc |-> "sigs", batch |-> <<>>]
            /\ polls' = polls + 1
       ELSE /\ disc' = [pc |-> "done", batch |-> <<>>]
            /\ UNCHANGED polls
    /\ UNCHANGED <<parserVars, otherVars>>
    /\ UNCHANGED <<active, monitored_pools, pool_tasks, tasks, data_queue,
                   unfinished_tasks, callbacks, chain, worker, stop, puts,
                   trade_events, stored, alerts, cb_calls, cb_escaped>>

\* ------------------------------------------------------------ pool tasks
Abs(x) == IF x < 0 THEN -x ELSE x

\* _update_pool_state: the entry is overwritten with the new market data.
update_pool_state(mp, pool, md) == DictSet(mp, pool, md)

\* _check_price_alerts(pool_address, market_data) reading the dict mp: the
\* price_alert events it publishes.  abs(price_change) >= 0.02 is computed
\* on the integer prices as |current - old| * 100 >= 2 * old.
check_price_alerts(mp, pool, md) ==
    LET current_price == IF md.has THEN md.price ELSE 0
        old_data == IF pool \in DOMAIN mp THEN mp[pool] ELSE EmptyData
        old_price == IF old_data.has THEN old_data.price ELSE current_price
    IN IF /\ old_price > 0
          /\ Abs(current_price - old_price) * 100 >= AlertThresholdPct * old_price
       THEN {[pool |-> pool, old_price |-> old_price, current_price |-> current_price]}
       ELSE {}

\* finally: if pool_address in self.pool_tasks: del self.pool_tasks[pool_address]
TaskFinally(pt, pool) == IF pool \in DOMAIN pt THEN DictDel(pt, pool) ELSE pt

SetTask(p, i, t) == [tasks EXCEPT ![p][i] = t]

\* The loop is left after MaxFails consecutive failures.
GiveUpAfterFailures(t) == t.fails + 1 >= MaxFails

\* except Exception: log, asyncio.sleep(5), and the while loop goes on.
GivesUp(t) == FALSE

\* The first step of a task that was cancelled before it ever ran: the
\* CancelledError is thrown into the unstarted coroutine, whose body (and so
\* its try/finally) is never entered.
TaskCancelledUnstarted(p, i) ==
    /\ LoopFree
    /\ tasks[p][i].pc = "created"
    /\ tasks[p][i].cancel
    /\ tasks' = SetTask(p, i, [tasks[p][i] EXCEPT !.pc = "done", !.cancel = FALSE])
    /\ UNCHANGED <<parserVars, otherVars>>
    /\ UNCHANGED <<active, monitored_pools, pool_tasks, data_queue,
                   unfinished_tasks, callbacks, chain, disc, worker, stop,
                   polls, puts, trade_events, stored, alerts, cb_calls,
                   cb_escaped>>

\* The first step of _monitor_pool: the while condition, then the first
\* collect_market_data call, or the finally block when the flag is cleared.
TaskStart(p, i) ==
    /\ LoopFree
    /\ tasks[p][i].pc = "created"
    /\ ~tasks[p][i].cancel
    /\ IF active
       THEN /\ tasks' = SetTask(p, i, [tasks[p][i] EXCEPT !.pc = "fetch"])
            /\ UNCHANGED pool_tasks
       ELSE /\ tasks' = SetTask(p, i, [tasks[p][i] EXCEPT !.pc = "done"])
            /\ pool_tasks' = TaskFinally(pool_tasks, p)
    /\ UNCHANGED <<parserVars, otherVars>>
    /\ UNCHANGED <<active, monitored_pools, data_queue, unfinished_tasks,
                   callbacks, chain, disc, worker, stop, polls, puts,
                   trade_events, stored, alerts, cb_calls, cb_escaped>>

\* A cancelled task is resumed with CancelledError at its await: neither
\* except clause catches it, the finally block runs.
TaskCancelled(p, i) ==
    /\ LoopFree
    /\ tasks[p][i].pc \in {"fetch", "sleep", "backoff"}
    /\ tasks[p][i].cancel
    /\ tasks' = SetTask(p, i, [tasks[p][i] EXCEPT !.pc = "done", !.cancel = FALSE])
    /\ pool_tasks' = TaskFinally(pool_tasks, p)
    /\ UNCHANGED <<parserVars, otherVars>>
    /\ UNCHANGED <<active, monitored_pools, data_queue, unfinished_tasks,
                   callbacks, chain, disc, worker, stop, polls, puts,
                   trade_events, stored, alerts, cb_calls, cb_escaped>>

\* collect_market_data returns md: _update_pool_state, then
\* _check_price_alerts (neither suspends), then asyncio.sleep(1).
TaskUpdate(p, i, md, count) ==
    /\ LoopFree
    /\ tasks[p][i].pc = "fetch"
    /\ ~tasks[p][i].cancel
    /\ md.has \/ ~count \/ tasks[p][i].fails < MaxFails
    /\ monitored_pools' = update_pool_state(monitored_pools, p, md)
    /\ alerts' = alerts \cup check_price_alerts(monitored_pools', p, md)
    /\ Publish2("pool_update",
                IF check_price_alerts(monitored_pools', p, md) # {}
                THEN "price_alert" ELSE "none")
    /\ tasks' = SetTask(p, i, [tasks[p][i] EXCEPT
                   !.pc = "sleep",
                   !.fails = IF md.has \/ ~count THEN 0 ELSE @ + 1])
    /\ UNCHANGED <<parserVars, otherVars>>
    /\ UNCHANGED <<active, pool_tasks, data_queue, unfinished_tasks,
                   callbacks, chain, disc, worker, stop, polls, puts,
                   trade_events, stored>>

\* An exception leaves the body of the inner try: the except clause logs and
\* waits in asyncio.sleep(5).
TaskFail(p, i, count) ==
    /\ LoopFree
    /\ tasks[p][i].pc = "fetch"
    /\ ~tasks[p][i].cancel
    /\ ~count \/ tasks[p][i].fails < MaxFails
    /\ IF GivesUp(tasks[p][i])
       THEN /\ tasks' = SetTask(p, i, [tasks[p][i] EXCEPT
                          !.pc = "done", !.fails = IF count THEN @ + 1 ELSE @])
            /\ pool_tasks' = TaskFinally(pool_tasks, p)
       ELSE /\ tasks' = SetTask(p, i, [tasks[p][i] EXCEPT
                          !.pc = "backoff", !.fails = IF count THEN @ + 1 ELSE @])
            /\ UNCHANGED pool_tasks
    /\ UNCHANGED <<parserVars, otherVars>>
    /\ UNCHANGED <<active, monitored_pools, data_queue, unfinished_tasks,
                   callbacks, chain, disc, worker, stop, polls, puts,
                   trade_events, stored, alerts, cb_calls, cb_escaped>>

\* A sleep is over: the while condition, then the next collect_market_data
\* call, or the finally block when the flag is cleared.
TaskWake(p, i) ==
    /\ LoopFree
    /\ tasks[p][i].pc \in {"sleep", "backoff"}
    /\ ~tasks[p][i].cancel
    /\ IF active
       THEN /\ tasks' = SetTask(p, i, [tasks[p][i] EXCEPT !.pc = "fetch"])
            /\ UNCHANGED pool_tasks
       ELSE /\ tasks' = SetTask(p, i, [tasks[p][i] EXCEPT !.pc = "done"])
            /\ pool_tasks' = TaskFinally(pool_tasks, p)
    /\ UNCHANGED <<parserVars, otherVars>>
    /\ UNCHANGED <<active, monitored_pools, data_queue, unfinished_tasks,
                   callbacks, chain, disc, worker, stop, polls, puts,
                   trade_events, stored, alerts, cb_calls, cb_escaped>>

\* ------------------------------------------------------------ worker thread
\* while self.active
WorkerCheck ==
    /\ worker.pc = "check"
    /\ worker' = [pc |-> IF active THEN "get" ELSE "exited", item |-> 0]
    /\ UNCHANGED <<parserVars, otherVars>>
    /\ UNCHANGED <<active, monitored_pools, pool_tasks, tasks, data_queue,
                   unfinished_tasks, callbacks, chain, disc, stop, polls, puts,
                   trade_events, stored, alerts, cb_calls, cb_escaped>>

\* data = self.data_queue.get(): blocks while the queue is empty.
WorkerGet ==
    /\ worker.pc = "get"
    /\ data_queue # <<>>
    /\ worker' = [pc |-> "store", item |-> Head(data_queue)]
    /\ data_queue' = Tail(data_queue)
    /\ UNCHANGED <<parserVars, otherVars>>
    /\ UNCHANGED <<active, monitored_pools, pool_tasks, tasks,
                   unfinished_tasks, callbacks, chain, disc, stop, polls, puts,
                   trade_events, stored, alerts, cb_calls, cb_escaped>>

\* store_transaction and store_market_state return, then task_done().
WorkerStore ==
    /\ worker.pc = "store"
    /\ stored' = Inc(stored, worker.item)
    /\ unfinished_tasks' = unfinished_tasks - 1
    /\ worker' = [pc |-> "check", item |-> 0]
    /\ UNCHANGED <<parserVars, otherVars>>
    /\ UNCHANGED <<active, monitored_pools, pool_tasks, tasks, data_queue,
                   callbacks, chain, disc, stop, polls, puts, trade_events,
                   alerts, cb_calls, cb_escaped>>

\* Storing raises: the except clause publishes "error"; task_done() is skipped.
WorkerStoreRaise ==
    /\ worker.pc = "store"
    /\ worker' = [pc |-> "check", item |-> 0]
    /\ Publish("error")
    /\ UNCHANGED <<parserVars, otherVars>>
    /\ UNCHANGED <<active, monitored_pools, pool_tasks, tasks, data_queue,
                   unfinished_tasks, callbacks, chain, disc, stop, polls, puts,
                   trade_events, stored, alerts>>

\* ------------------------------------------------------------ stop_monitoring
Registered == {<<p, pool_tasks[p]>> : p \in DOMAIN pool_tasks}

\* stop_monitoring goes straight on to client.close().
JoinSkipped == TRUE

\* self.data_queue.join() returns when every put item has had its task_done().
JoinReturns == unfinished_tasks = 0

\* A stop_monitoring call up to its first wait: self.active = False;
\* task.cancel() for every registered task; then the gather of the
\* registered tasks, or join() at once when there is none.  stop is the
\* latest call; a call that has not returned when the next one is made is
\* kept in stop.earlier.
StopMonitoring ==
    /\ LoopFree
    /\ stop.calls < MaxPoolStops
    /\ active' = FALSE
    /\ tasks' = [p \in Pools |-> [i \in 1..Len(tasks[p]) |->
                    IF <<p, i>> \in Registered /\ tasks[p][i].pc # "done"
                    THEN [tasks[p][i] EXCEPT !.cancel = TRUE]
                    ELSE tasks[p][i]]]
    /\ stop' = [pc |-> IF DOMAIN pool_tasks # {} THEN "gather" ELSE "join",
                waiting |-> IF DOMAIN pool_tasks # {} THEN Registered ELSE {},
                calls |-> stop.calls + 1,
                earlier |-> IF stop.pc \in {"gather", "closing"}
                            THEN Append(stop.earlier,
                                        [pc |-> stop.pc, waiting |-> stop.waiting])
                            ELSE stop.earlier]
    /\ UNCHANGED <<parserVars, otherVars>>
    /\ UNCHANGED <<monitored_pools, pool_tasks, data_queue, unfinished_tasks,
                   callbacks, chain, disc, worker, polls, puts, trade_events,
                   stored, alerts, cb_calls, cb_escaped>>

\* asyncio.gather(...) is done when every gathered task is done.
StopGathered ==
    /\ LoopFree
    /\ stop.pc = "gather"
    /\ \A t \in stop.waiting : tasks[t[1]][t[2]].pc = "done"
    /\ stop' = [stop EXCEPT !.pc = "join", !.waiting = {}]
    /\ UNCHANGED <<parserVars, otherVars>>
    /\ UNCHANGED <<active, monitored_pools, pool_tasks, tasks, data_queue,
                   unfinished_tasks, callbacks, chain, disc, worker, polls,
                   puts, trade_events, stored, alerts, cb_calls, cb_escaped>>

\* join() returns; executor.shutdown(wait=True); client.close() is called.
StopJoined ==
    /\ stop.pc = "join"
    /\ JoinReturns
    /\ stop' = [stop EXCEPT !.pc = "closing"]
    /\ UNCHANGED <<parserVars, otherVars>>
    /\ UNCHANGED <<active, monitored_pools, pool_tasks, tasks, data_queue,
                   unfinished_tasks, callbacks, chain, disc, worker, polls,
                   puts, trade_events, stored, alerts, cb_calls, cb_escaped>>

\* client.close() is over and stop_monitoring returns.
StopReturn ==
    /\ LoopFree
    /\ stop.pc = "closing"
    /\ stop' = [stop EXCEPT !.pc = "stopped"]
    /\ UNCHANGED <<parserVars, otherVars>>
    /\ UNCHANGED <<active, monitored_pools, pool_tasks, tasks, data_queue,
                   unfinished_tasks, callbacks, chain, disc, worker, polls,
                   puts, trade_events, stored, alerts, cb_calls, cb_escaped>>

\* The same three steps of a stop_monitoring call that was followed by
\* another call before it returned.
EarlierStopGathered(i) ==
    /\ LoopFree
    /\ i \in 1..Len(stop.earlier)
    /\ stop.earlier[i].pc = "gather"
    /\ \A t \in stop.earlier[i].waiting : tasks[t[1]][t[2]].pc = "done"
    /\ stop' = [stop EXCEPT !.earlier[i] = [pc |-> "join", waiting |-> {}]]
    /\ UNCHANGED <<parserVars, otherVars>>
    /\ UNCHANGED <<active, monitored_pools, pool_tasks, tasks, data_queue,
                   unfinished_tasks, callbacks, chain, disc, worker, polls,
                   puts, trade_events, stored, alerts, cb_calls, cb_escaped>>

EarlierStopJoined(i) ==
    /\ i \in 1..Len(stop.earlier)
    /\ stop.earlier[i].pc = "join"
    /\ JoinReturns
    /\ stop' = [stop EXCEPT !.earlier[i].pc = "closing"]
    /\ UNCHANGED <<parserVars, otherVars>>
    /\ UNCHANGED <<active, monitored_pools, pool_tasks, tasks, data_queue,
                   unfinished_tasks, callbacks, chain, disc, worker, polls,
                   puts, trade_events, stored, alerts, cb_calls, cb_escaped>>

EarlierStopReturn(i) ==
    /\ LoopFree
    /\ i \in 1..Len(stop.earlier)
    /\ stop.earlier[i].pc = "closing"
    /\ stop' = [stop EXCEPT !.earlier[i].pc = "stopped"]
    /\ UNCHANGED <<parserVars, otherVars>>
    /\ UNCHANGED <<active, monitored_pools, pool_tasks, tasks, data_queue,
                   unfinished_tasks, callbacks, chain, disc, worker, polls,
                   puts, trade_events, stored, alerts, cb_calls, cb_escaped>>

\* ------------------------------------------------------------ restart
\* start_monitoring is called again, by another coroutine, while the event
\* loop is free: the flag is set, a new thread is started and assigned to
\* self.processing_thread, and a new discovery loop makes its first
\* get_signatures_for_address call.  The thread started before is no longer
\* referred to and runs on unless it has left its loop; the discovery loop
\* of the earlier call runs on unless it has ended.  threads keeps both, and
\* worker and disc are those of the latest call.
RestartMonitoring ==
    /\ LoopFree
    /\ disc.pc # "idle"
    /\ Len(threads) < MaxRestarts
    /\ active' = TRUE
    /\ threads' = Append(threads, [pc |-> worker.pc, item |-> worker.item,
                                   disc |-> disc])
    /\ worker' = [pc |-> "check", item |-> 0]
    /\ disc' = [pc |-> "sigs", batch |-> <<>>]
    /\ polls' = polls + 1
    /\ UNCHANGED <<parserVars, tmon, wmon, bparse>>
    /\ UNCHANGED <<monitored_pools, pool_tasks, tasks, data_queue,
                   unfinished_tasks, callbacks, chain, stop, puts,
                   trade_events, stored, alerts, cb_calls, cb_escaped>>

\* _process_data_queue as run by thread i of an earlier start_monitoring.
\* while self.active
ThreadCheck(i) ==
    /\ i \in 1..Len(threads)
    /\ threads[i].pc = "check"
    /\ threads' = [threads EXCEPT ![i].pc = IF active THEN "get" ELSE "exited",
                                  ![i].item = 0]
    /\ UNCHANGED <<MonitorVars, parserVars, tmon, wmon, bparse>>

\* data = self.data_queue.get()
ThreadGet(i) ==
    /\ i \in 1..Len(threads)
    /\ threads[i].pc = "get"
    /\ data_queue # <<>>
    /\ threads' = [threads EXCEPT ![i].pc = "store", ![i].item = Head(data_queue)]
    /\ data_queue' = Tail(data_queue)
    /\ UNCHANGED <<parserVars, tmon, wmon, bparse>>
    /\ UNCHANGED <<active, monitored_pools, pool_tasks, tasks,
                   unfinished_tasks, callbacks, chain, disc, worker, stop,
                   polls, puts, trade_events, stored, alerts, cb_calls,
                   cb_escaped>>

\* store_transaction and store_market_state return, then task_done().
ThreadStore(i) ==
    /\ i \in 1..Len(threads)
    /\ threads[i].pc = "store"
    /\ stored' = Inc(stored, threads[i].item)
    /\ unfinished_tasks' = unfinished_tasks - 1
    /\ threads' = [threads EXCEPT ![i].pc = "check", ![i].item = 0]
    /\ UNCHANGED <<parserVars, tmon, wmon, bparse>>
    /\ UNCHANGED <<active, monitored_pools, pool_tasks, tasks, data_queue,
                   callbacks, chain, disc, worker, stop, polls, puts,
                   trade_events, alerts, cb_calls, cb_escaped>>

\* Storing raises: "error" is published and task_done() is skipped.
ThreadStoreRaise(i) ==
    /\ i \in 1..Len(threads)
    /\ threads[i].pc = "store"
    /\ threads' = [threads EXCEPT ![i].pc = "check", ![i].item = 0]
    /\ Publish("error")
    /\ UNCHANGED <<parserVars, tmon, wmon, bparse>>
    /\ UNCHANGED <<active, monitored_pools, pool_tasks, tasks, data_queue,
                   unfinished_tasks, callbacks, chain, disc, worker, stop,
                   polls, puts, trade_events, stored, alerts>>

\* _monitor_address_trades as run by the coroutine of earlier call i.
\* get_signatures_for_address returns.
EarlierSignatures(i) ==
    /\ LoopFree
    /\ i \in 1..Len(threads)
    /\ threads[i].disc.pc = "sigs"
    /\ threads' = [threads EXCEPT ![i].disc = DiscAdvance(SigList(chain))]
    /\ UNCHANGED <<MonitorVars, parserVars, tmon, wmon, bparse>>

\* get_signatures_for_address or get_transaction raises.
EarlierRaise(i) ==
    /\ LoopFree
    /\ i \in 1..Len(threads)
    /\ threads[i].disc.pc \in {"sigs", "tx"}
    /\ threads' = [threads EXCEPT ![i].disc = [pc |-> "done", batch |-> <<>>]]
    /\ Publish("error")
    /\ UNCHANGED <<parserVars, tmon, wmon, bparse>>
    /\ UNCHANGED <<active, monitored_pools, pool_tasks, tasks, data_queue,
                   unfinished_tasks, callbacks, chain, disc, worker, stop,
                   polls, puts, trade_events, stored, alerts>>

\* One of the three "continue" branches.
EarlierSkip(i) ==
    /\ LoopFree
    /\ i \in 1..Len(threads)
    /\ threads[i].disc.pc = "tx"
    /\ threads' = [threads EXCEPT ![i].disc = DiscAdvance(Tail(@.batch))]
    /\ UNCHANGED <<MonitorVars, parserVars, tmon, wmon, bparse>>

\* A swap was parsed: the pool's task when the pool has no entry, then
\* _process_trade up to the return of data_queue.put.
EarlierSwap(i, npools) ==
    /\ LoopFree
    /\ i \in 1..Len(threads)
    /\ threads[i].disc.pc = "tx"
    /\ LET sig == Head(threads[i].disc.batch)
           pool == PoolOfSig(sig, npools)
       IN /\ IF NeedsTask(pool_tasks, pool)
             THEN /\ Len(tasks[pool]) < MaxTasksPerPool
                  /\ tasks' = [tasks EXCEPT ![pool] = Append(@, NewTask)]
                  /\ pool_tasks' = DictSet(pool_tasks, pool, Len(tasks[pool]) + 1)
             ELSE UNCHANGED <<tasks, pool_tasks>>
          /\ ~PutBlocks(data_queue)
          /\ data_queue' = Append(data_queue, sig)
          /\ unfinished_tasks' = unfinished_tasks + 1
          /\ puts' = Inc(puts, sig)
          /\ threads' = [threads EXCEPT ![i].disc.pc = "publish"]
    /\ UNCHANGED <<parserVars, tmon, wmon, bparse>>
    /\ UNCHANGED <<active, monitored_pools, callbacks, chain, disc, worker,
                   stop, polls, trade_events, stored, alerts, cb_calls,
                   cb_escaped>>

\* The rest of _process_trade: _trigger_callbacks('trade_detected', ...).
EarlierTradeDetected(i) ==
    /\ i \in 1..Len(threads)
    /\ threads[i].disc.pc = "publish"
    /\ trade_events' = Inc(trade_events, Head(threads[i].disc.batch))
    /\ Publish("trade_detected")
    /\ threads' = [threads EXCEPT ![i].disc = DiscAdvance(Tail(@.batch))]
    /\ UNCHANGED <<parserVars, tmon, wmon, bparse>>
    /\ UNCHANGED <<active, monitored_pools, pool_tasks, tasks, data_queue,
                   unfinished_tasks, callbacks, chain, disc, worker, stop,
                   polls, puts, stored, alerts>>

\* asyncio.sleep(1) is over: the while condition, then the next poll or the
\* end.
EarlierWake(i) ==
    /\ LoopFree
    /\ i \in 1..Len(threads)
    /\ threads[i].disc.pc = "sleep"
    /\ IF active
       THEN /\ polls < MaxPolls
            /\ threads' = [threads EXCEPT ![i].disc = [pc |-> "sigs", batch |-> <<>>]]
            /\ polls' = polls + 1
       ELSE /\ threads' = [threads EXCEPT ![i].disc = [pc |-> "done", batch |-> <<>>]]
            /\ UNCHANGED polls
    /\ UNCHANGED <<parserVars, tmon, wmon, bparse>>
    /\ UNCHANGED <<active, monitored_pools, pool_tasks, tasks, data_queue,
                   unfinished_tasks, callbacks, chain, disc, worker, stop,
                   puts, trade_events, stored, alerts, cb_calls, cb_escaped>>

\* ------------------------------------------------------------ transactions
\* A token balance entry of meta.preTokenBalances / meta.postTokenBalances:
\* accountIndex, mint, owner and uiTokenAmount.{amount, decimals, uiAmount}.
\* The amount is the raw integer, uiAmount the same in whole tokens.
RECURSIVE Pow10(_)
Pow10(n) == IF n = 0 THEN 1 ELSE 10 * Pow10(n - 1)

AccountKeys == <<"traderX", "poolAddrP">>
Mints == {"USDC", "SOL"}
DecimalsOf(mint) == IF mint = "USDC" THEN 2 ELSE 1

Balance(idx, mint, ui) ==
    [accountIndex |-> idx, mint |-> mint, owner |-> AccountKeys[idx + 1],
     amount |-> ui * Pow10(DecimalsOf(mint)), decimals |-> DecimalsOf(mint),
     uiAmount |-> ui]

\* The instructions of a transaction as the instruction parser names them.
JUPITER_PROGRAM_ID == "JUP2jxvXaqu7NQY1GmNF4m1vodw12LVXYxbFL2uJvfo"
ORCA_PROGRAM_ID == "whirLbMiicVdio4qvUfM5KAg6Ct8VwpYzGff3uctyCc"
RAYDIUM_PROGRAM_ID == "675kPX9MHTjS2zt1qfr1NYHuzeLXfQM9H24wFSUt1Mp8"
SYSTEM_PROGRAM_ID == "11111111111111111111111111111111"

\* Instruction names ("swap" in name.lower() holds of the first two).
SwapNames == {"swap", "SwapExactIn"}
InstructionNames == SwapNames \cup {"transfer"}

\* ---- dict comprehension {(b.accountIndex, b.mint): b for b in balances}
BalKey(b) == <<b.accountIndex, b.mint>>

HasKey(bs, k) == \E i \in 1..Len(bs) : BalKey(bs[i]) = k

\* The value kept for a key is the one of its last entry.
DictGet(bs, k) ==
    bs[CHOOSE i \in 1..Len(bs) :
          /\ BalKey(bs[i]) = k
          /\ \A j \in (i + 1)..Len(bs) : BalKey(bs[j]) # k]

\* The keys in iteration order: the order of their first entries.
RECURSIVE DictKeys(_)
DictKeys(bs) ==
    IF bs = <<>> THEN <<>>
    ELSE LET front == DictKeys(SubSeq(bs, 1, Len(bs) - 1))
             k == BalKey(bs[Len(bs)])
         IN IF \E i \in 1..Len(front) : front[i] = k
            THEN front ELSE Append(front, k)

\* ---- src/solana/parser.py
\* The methods _extract_token_transfers and _extract_swap_info as they are
\* written.  (The file is not loadable as a module: the statement at l.241
\* is an IndentationError, and the two methods stand in a fragment after the
\* module-level functions; nothing in src/ calls them.)

\* self.KNOWN_TOKENS.get(mint, "Unknown") in a class that assigns
\* KNOWN_TOKENS.
token_symbol_known(mint) == [raised |-> FALSE, symbol |-> "Unknown"]

\* self.KNOWN_TOKENS.get(mint, "Unknown"): neither __init__ (which assigns
\* known_programs only) nor any other statement of src/ assigns KNOWN_TOKENS,
\* so the lookup raises AttributeError.
token_symbol(mint) == [raised |-> TRUE, symbol |-> "None"]

\* The body of "for key in post_bal_map" in _extract_token_transfers: the
\* transfers (none or one) appended for one key.  A transfer whose
\* token_symbol raised is never built: the exception leaves the method.
TransferForKey(pre, post, k) ==
    LET post_bal == DictGet(post, k)
    IN IF HasKey(pre, k)
       THEN LET pre_bal == DictGet(pre, k)
            IN IF post_bal.amount > pre_bal.amount
               THEN <<[token |-> k[2], token_symbol |-> token_symbol(k[2]),
                       from_address |-> "None",
                       to_address |-> post_bal.owner,
                       amount |-> (post_bal.amount - pre_bal.amount)
                                  \div Pow10(post_bal.decimals)]>>
               ELSE IF post_bal.amount < pre_bal.amount
               THEN <<[token |-> k[2], token_symbol |-> token_symbol(k[2]),
                       from_address |-> pre_bal.owner,
                       to_address |-> "None",
                       amount |-> (pre_bal.amount - post_bal.amount)
                                  \div Pow10(pre_bal.decimals)]>>
               ELSE <<>>
       ELSE IF post_bal.amount > 0
            THEN <<[token |-> k[2], token_symbol |-> token_symbol(k[2]),
                    from_address |-> "None",
                    to_address |-> post_bal.owner,
                    amount |-> post_bal.amount \div Pow10(post_bal.decimals)]>>
            ELSE <<>>

RECURSIVE TransfersForKeys(_, _, _)
TransfersForKeys(pre, post, keys) ==
    IF keys = <<>> THEN <<>>
    ELSE TransferForKey(pre, post, Head(keys))
         \o TransfersForKeys(pre, post, Tail(keys))

\* _extract_token_transfers(tx_data): the list of transfers, or the
\* AttributeError of the first transfer it sets out to build.
extract_token_transfers(t) ==
    LET built == IF t.has_balances
                 THEN TransfersForKeys(t.preTokenBalances, t.postTokenBalances,
                                       DictKeys(t.postTokenBalances))
                 ELSE <<>>
    IN IF \E i \in 1..Len(built) : built[i].token_symbol.raised
       THEN [raised |-> TRUE, transfers |-> <<>>]
       ELSE [raised |-> FALSE, transfers |-> built]

\* The keys of transfers_by_address in insertion order.
RECURSIVE AddressesInOrder(_)
AddressesInOrder(transfers) ==
    IF transfers = <<>> THEN <<>>
    ELSE LET front == AddressesInOrder(SubSeq(transfers, 1, Len(transfers) - 1))
             last == transfers[Len(transfers)]
             Seen(seq, a) == \E i \in 1..Len(seq) : seq[i] = a
             withFrom == IF last.from_address # "None" /\ ~Seen(front, last.from_address)
                         THEN Append(front, last.from_address) ELSE front
         IN IF last.to_address # "None" /\ ~Seen(withFrom, last.to_address)
            THEN Append(withFrom, last.to_address) ELSE withFrom

\* transfers_by_address[addr]["out"] and ["in"]
OutTransfers(transfers, addr) ==
    SelectSeq(transfers, LAMBDA x : x.from_address = addr)
InTransfers(transfers, addr) ==
    SelectSeq(transfers, LAMBDA x : x.to_address = addr)

\* candidate_addresses: the addresses with an inflow and an outflow.
CandidateAddresses(transfers) ==
    SelectSeq(AddressesInOrder(transfers),
              LAMBDA a : InTransfers(transfers, a) # <<>>
                         /\ OutTransfers(transfers, a) # <<>>)

\* max(transfers, key=amount): the first transfer of the largest amount.
MaxTransfer(ts) ==
    ts[CHOOSE i \in 1..Len(ts) :
          /\ \A j \in 1..Len(ts) : ts[j].amount <= ts[i].amount
          /\ \A j \in 1..(i - 1) : ts[j].amount < ts[i].amount]

\* swap_info with its keys at None; raised: no swap_info was returned, the
\* call ended with an exception.
NoSwapInfo == [raised |-> FALSE, trader |-> "None",
               input_token |-> "None", input_amount |-> "None",
               output_token |-> "None", output_amount |-> "None"]

\* if candidate_addresses: trader_addr = candidate_addresses[0]
PickCandidate(candidates) == candidates # <<>>

\* _extract_swap_info(tx_data): the token and amount keys of swap_info, and
\* the address taken as the trader.  The call of _extract_token_transfers
\* stands in no try: its exception is the outcome of _extract_swap_info.
extract_swap_info(t) ==
    LET extracted == extract_token_transfers(t)
        token_transfers == extracted.transfers
        candidate_addresses == CandidateAddresses(token_transfers)
    IN IF extracted.raised THEN [NoSwapInfo EXCEPT !.raised = TRUE]
       ELSE IF PickCandidate(candidate_addresses)
       THEN LET trader_addr == candidate_addresses[1]
                max_out == MaxTransfer(OutTransfers(token_transfers, trader_addr))
                max_in == MaxTransfer(InTransfers(token_transfers, trader_addr))
            IN [raised |-> FALSE, trader |-> trader_addr,
                input_token |-> max_out.token, input_amount |-> max_out.amount,
                output_token |-> max_in.token, output_amount |-> max_in.amount]
       ELSE NoSwapInfo

\* ---- src/tx_parser/parser.py
\* The body of "for key in post_map" in parse_transaction.
ParsedTransferForKey(t, k) ==
    IF HasKey(t.preTokenBalances, k)
    THEN LET pre_amount == DictGet(t.preTokenBalances, k).uiAmount
             post_amount == DictGet(t.postTokenBalances, k).uiAmount
         IN IF post_amount # pre_amount
            THEN <<[token |-> k[2],
                    from_address |-> IF post_amount < pre_amount
                                     THEN t.accountKeys[k[1] + 1] ELSE "None",
                    to_address |-> IF post_amount > pre_amount
                                   THEN t.accountKeys[k[1] + 1] ELSE "None",
                    amount |-> Abs(post_amount - pre_amount)]>>
            ELSE <<>>
    ELSE <<>>

RECURSIVE ParsedTransfersForKeys(_, _)
ParsedTransfersForKeys(t, keys) ==
    IF keys = <<>> THEN <<>>
    ELSE ParsedTransferForKey(t, Head(keys)) \o ParsedTransfersForKeys(t, Tail(keys))

\* TransactionParser.parse_transaction(tx_data): the success flag and the
\* token transfers of the ParsedTransaction.
parse_transaction(t) ==
    [success |-> ~t.err,
     token_transfers |-> ParsedTransfersForKeys(t, DictKeys(t.postTokenBalances))]

\* ---- src/parser/dex_parser.py, src/monitor/pool_monitor.py
IsSwapInstruction(instr) ==
    /\ instr.program_id \in {JUPITER_PROGRAM_ID, ORCA_PROGRAM_ID, RAYDIUM_PROGRAM_ID}
    /\ instr.name \in SwapNames

\* parse_swap_instruction(tx_data): the first swap instruction's data, or {}.
parse_swap_instruction(t) ==
    LET swaps == SelectSeq(t.instructions, IsSwapInstruction)
    IN IF swaps = <<>> THEN [has |-> FALSE]
       ELSE [has |-> TRUE, instruction |-> swaps[1].name,
             pool_address |-> swaps[1].pool]

\* What the discovery loop makes of one fetched transaction (the round of
\* `for sig_info in signatures` for it) up to the return of data_queue.put
\* in _process_trade: the item on data_queue, and the loop thread about to
\* publish trade_detected (pc "publish"); or, without a swap on a pool,
\* nothing (pc "done").  Nothing is stored yet: records are written by the
\* worker thread, which is running and holds no item (item <<>>).
process_transaction(t) ==
    LET swap_data == parse_swap_instruction(t)
    IN IF swap_data.has /\ swap_data.pool_address # "None"
       THEN [swap_data |-> swap_data, trade_detected |-> FALSE,
             data_queue |-> <<[type |-> "trade", signature |-> t.signature]>>,
             item |-> <<>>, records |-> <<>>, worker |-> "running",
             pc |-> "publish"]
       ELSE [swap_data |-> swap_data, trade_detected |-> FALSE,
             data_queue |-> <<>>, item |-> <<>>, records |-> <<>>,
             worker |-> "running", pc |-> "done"]

\* data = self.data_queue.get() in _process_data_queue: the worker thread
\* takes the item at the head of the queue.
queue_get(trade) ==
    [trade EXCEPT !.data_queue = Tail(@),
                  !.item = <<Head(trade.data_queue)>>,
                  !.worker = "got"]

\* The rest of the round of _process_data_queue for the item taken:
\* db.store_transaction with the literal 'success': True, store_market_state
\* and task_done(); the thread is back at `while self.active`.
store_transaction(trade) ==
    [trade EXCEPT
        !.item = <<>>,
        !.records = Append(@, [tx_hash |-> trade.item[1].signature,
                               success |-> TRUE]),
        !.worker = "running"]

\* ---- the transactions handed to the parsers
\* The holdings of the token accounts before or after a transaction: per
\* (account index, mint) the amount in whole tokens (<<>>: no entry).
UsdcAmounts == {900, 1000}
SolAmounts == {0, 5}
BalKeys == <<<<0, "USDC">>, <<0, "SOL">>, <<1, "USDC">>, <<1, "SOL">>>>
Holdings ==
    {h \in [1..Len(BalKeys) -> {<<>>} \cup {<<a>> : a \in UsdcAmounts \cup SolAmounts}] :
        \A i \in 1..Len(BalKeys) :
            h[i] = <<>> \/ h[i][1] \in (IF BalKeys[i][2] = "USDC"
                                        THEN UsdcAmounts ELSE SolAmounts)}

RECURSIVE BalancesFrom(_, _)
BalancesFrom(h, i) ==
    IF i > Len(BalKeys) THEN <<>>
    ELSE (IF h[i] = <<>> THEN <<>>
          ELSE <<Balance(BalKeys[i][1], BalKeys[i][2], h[i][1])>>)
         \o BalancesFrom(h, i + 1)

InstructionLists ==
    {<<>>,
     <<[program_id |-> SYSTEM_PROGRAM_ID, name |-> "transfer", pool |-> "None"],
       [program_id |-> RAYDIUM_PROGRAM_ID, name |-> "SwapExactIn", pool |-> "poolAddrP"]>>}

Transactions ==
    {[signature |-> "sig", err |-> e, accountKeys |-> AccountKeys,
      has_balances |-> TRUE,
      preTokenBalances |-> BalancesFrom(pre, 1),
      postTokenBalances |-> BalancesFrom(post, 1),
      instructions |-> ixs] :
        e \in BOOLEAN, pre \in Holdings, post \in Holdings, ixs \in InstructionLists}

\* Transactions of one owner with three token accounts (account indices 0, 1
\* and 2, one mint each), each holding 10 tokens before and LegAfter tokens
\* after; meta.postTokenBalances lists the accounts in any order.
LegMints == <<"USDC", "SOL", "BONK">>
LegBefore == 10
LegAfter == {3, 5, 15, 17}
LegOrders == {<<1, 2, 3>>, <<1, 3, 2>>, <<2, 1, 3>>, <<2, 3, 1>>, <<3, 1, 2>>, <<3, 2, 1>>}

LegBalance(idx, ui) ==
    [accountIndex |-> idx, mint |-> LegMints[idx + 1], owner |-> "traderX",
     amount |-> ui * Pow10(DecimalsOf(LegMints[idx + 1])),
     decimals |-> DecimalsOf(LegMints[idx + 1]), uiAmount |-> ui]

LegTransactions ==
    {[signature |-> "sig", err |-> FALSE,
      accountKeys |-> <<"traderX", "poolAddrP", "vaultV">>,
      has_balances |-> TRUE,
      preTokenBalances |-> [i \in 1..3 |-> LegBalance(i - 1, LegBefore)],
      postTokenBalances |-> [i \in 1..3 |-> LegBalance(o[i] - 1, after[o[i]])],
      instructions |-> <<>>] :
        o \in LegOrders, after \in [1..3 -> LegAfter]}

\* A transaction is handed to the parsers of a monitor that was just built.
InitNorm ==
    /\ InitMonitor(NPools, NSigs)
    /\ InitOther
    /\ tx \in Transactions \cup LegTransactions
    /\ norm = NotRunYet
    /\ account = NoAccount
    /\ decoded = NotRunYet
    /\ ix = NoIx
    /\ ix_parsed = NotRunYet

\* swap_info = _extract_swap_info(tx)
ExtractSwapInfo ==
    /\ tx.signature # "None"
    /\ "swap_info" \notin DOMAIN norm
    /\ norm' = DictSet(norm, "swap_info", extract_swap_info(tx))
    /\ UNCHANGED <<MonitorVars, otherVars, tx, account, decoded, ix, ix_parsed>>

\* parsed = TransactionParser().parse_transaction(tx)
ParseTransaction ==
    /\ tx.signature # "None"
    /\ "parsed" \notin DOMAIN norm
    /\ norm' = DictSet(norm, "parsed", parse_transaction(tx))
    /\ UNCHANGED <<MonitorVars, otherVars, tx, account, decoded, ix, ix_parsed>>

\* The discovery loop's handling of tx, up to the return of data_queue.put.
ProcessTransaction ==
    /\ tx.signature # "None"
    /\ "trade" \notin DOMAIN norm
    /\ norm' = DictSet(norm, "trade", process_transaction(tx))
    /\ UNCHANGED <<MonitorVars, otherVars, tx, account, decoded, ix, ix_parsed>>

\* The loop thread goes on in _process_trade:
\* _trigger_callbacks('trade_detected', ...).
TradeDetected ==
    /\ "trade" \in DOMAIN norm
    /\ norm.trade.pc = "publish"
    /\ norm' = [norm EXCEPT !.trade.trade_detected = TRUE, !.trade.pc = "done"]
    /\ UNCHANGED <<MonitorVars, otherVars, tx, account, decoded, ix, ix_parsed>>

\* data_queue.get() returns to the worker thread: the item is off the queue
\* and not stored yet.
QueueGet ==
    /\ "trade" \in DOMAIN norm
    /\ norm.trade.worker = "running"
    /\ norm.trade.data_queue # <<>>
    /\ norm' = [norm EXCEPT !.trade = queue_get(@)]
    /\ UNCHANGED <<MonitorVars, otherVars, tx, account, decoded, ix, ix_parsed>>

\* The worker thread stores the item it holds.
StoreTransaction ==
    /\ "trade" \in DOMAIN norm
    /\ norm.trade.worker = "got"
    /\ norm' = [norm EXCEPT !.trade = store_transaction(@)]
    /\ UNCHANGED <<MonitorVars, otherVars, tx, account, decoded, ix, ix_parsed>>

\* stop_monitoring was called: the worker thread finds self.active False at
\* `while self.active` and returns, with whatever is in the queue.
WorkerLeaves ==
    /\ "trade" \in DOMAIN norm
    /\ norm.trade.worker = "running"
    /\ norm' = [norm EXCEPT !.trade.worker = "returned"]
    /\ UNCHANGED <<MonitorVars, otherVars, tx, account, decoded, ix, ix_parsed>>

NextNorm ==
    \/ ExtractSwapInfo
    \/ ParseTransaction
    \/ ProcessTransaction
    \/ TradeDetected
    \/ QueueGet
    \/ StoreTransaction
    \/ WorkerLeaves

SpecNorm == InitNorm /\ [][NextNorm]_vars

\* ------------------------------------------------------------ pool accounts
\* A pool account as handed to the decoders: its owner program and what the
\* account-data parser (parser.parse_account_data) makes of its data: nothing
\* ("none"), an exception ("raises") or the fields of the layout ("parsed").
\* A field is <<v>> when the parsed data has it with value v, and <<>> when
\* the parsed data has no such field: parsed_data.get(...) then gives None.
Owners == {JUPITER_PROGRAM_ID, ORCA_PROGRAM_ID, RAYDIUM_PROGRAM_ID, SYSTEM_PROGRAM_ID}
ReservesA == {0, 1000}
ReservesB == {0, 2000}
Optional(S) == {<<>>} \cup {<<v>> : v \in S}
Accounts ==
    {NoAccount}
    \cup {[NoAccount EXCEPT !.exists = TRUE, !.owner = o, !.kind = k] :
             o \in Owners, k \in {"none", "raises"}}
    \cup {[exists |-> TRUE, owner |-> o, kind |-> "parsed",
           tokenAReserve |-> ra, tokenBReserve |-> rb,
           tokenADecimals |-> da, tokenBDecimals |-> db,
           currentPrice |-> cp] :
             o \in Owners, ra \in Optional(ReservesA), rb \in Optional(ReservesB),
             da \in Optional({DecimalsOf("SOL")}),
             db \in Optional({DecimalsOf("USDC")}), cp \in Optional({3})}

\* {}: the empty dict every failing path of the decoders returns.  In a
\* non-empty pool_data has_reserve tells whether the token dicts have the
\* key "reserve" and has_price whether the dict has the key "price"; a value
\* of <<>> is None.
EmptyPoolData == [has |-> FALSE, protocol |-> "None", has_reserve |-> FALSE,
                  reserve_a |-> <<>>, reserve_b |-> <<>>,
                  decimals_a |-> <<>>, decimals_b |-> <<>>,
                  has_price |-> FALSE, price |-> <<>>]

\* _parse_jupiter_pool / _parse_orca_pool / _parse_raydium_pool of DexParser:
\* jupiter has tokens with reserve and a price, orca tokens with reserve,
\* raydium tokens with vault (no reserve key).  Every value is what
\* parsed_data.get gives.
parse_protocol_pool(protocol, a) ==
    IF a.kind # "parsed" THEN EmptyPoolData
    ELSE [has |-> TRUE, protocol |-> protocol,
          has_reserve |-> protocol # "raydium",
          reserve_a |-> IF protocol = "raydium" THEN <<>> ELSE a.tokenAReserve,
          reserve_b |-> IF protocol = "raydium" THEN <<>> ELSE a.tokenBReserve,
          decimals_a |-> a.tokenADecimals, decimals_b |-> a.tokenBDecimals,
          has_price |-> protocol = "jupiter",
          price |-> IF protocol = "jupiter" THEN a.currentPrice ELSE <<>>]

\* DexParser.parse_pool_data(pool_address) for the account a.
parse_pool_data(a) ==
    IF ~a.exists THEN EmptyPoolData
    ELSE IF a.owner = JUPITER_PROGRAM_ID THEN parse_protocol_pool("jupiter", a)
    ELSE IF a.owner = ORCA_PROGRAM_ID THEN parse_protocol_pool("orca", a)
    ELSE IF a.owner = RAYDIUM_PROGRAM_ID THEN parse_protocol_pool("raydium", a)
    ELSE EmptyPoolData

\* SolanaCollector._parse_jupiter_pool(data): return {}
collector_parse_jupiter_pool(a) == EmptyPoolData

\* A price is the exact quotient num/den of the float expression.
EmptyPriceData == [has |-> FALSE, current_price |-> <<0, 1>>]

\* float(token_a.get("reserve", 0)), float(token_b.get("reserve", 0)),
\* int(token_a.get("decimals", 0)), int(token_b.get("decimals", 0)) in
\* get_price_data: the default 0 stands in for an absent key only; a key
\* whose value is None makes float(None) or int(None) raise TypeError.
ConversionRaises(pool_data) ==
    \/ pool_data.has_reserve
       /\ (pool_data.reserve_a = <<>> \/ pool_data.reserve_b = <<>>)
    \/ pool_data.decimals_a = <<>>
    \/ pool_data.decimals_b = <<>>

\* MarketDataCollector.get_price_data(pool_address): {} for an empty
\* pool_data and, by the except clause, for every exception; else the
\* price of the reserves, overwritten by a price.current_price that is not
\* None.
get_price_data(a) ==
    LET pool_data == parse_pool_data(a)
        reserve_a == IF pool_data.has_reserve THEN pool_data.reserve_a[1] ELSE 0
        reserve_b == IF pool_data.has_reserve THEN pool_data.reserve_b[1] ELSE 0
        price == IF reserve_a > 0 /\ reserve_b > 0
                 THEN <<reserve_b * Pow10(pool_data.decimals_a[1]),
                        reserve_a * Pow10(pool_data.decimals_b[1])>>
                 ELSE <<0, 1>>
    IN IF ~pool_data.has THEN EmptyPriceData
       ELSE IF ConversionRaises(pool_data) THEN EmptyPriceData
       ELSE [has |-> TRUE,
             current_price |-> IF pool_data.has_price /\ pool_data.price # <<>>
                               THEN <<pool_data.price[1], 1>> ELSE price]

\* MarketDataCollector.collect_market_data(pool_address): the protocol and
\* price_data keys of the dict it returns.  price_data is what the gather
\* gave; the protocol comes from a read of the account of its own, made after
\* the gather, which sees the account as it is then (a).
collect_market_data(price_data, a) ==
    LET pool_data == parse_pool_data(a)
    IN [protocol |-> IF pool_data.has THEN pool_data.protocol ELSE "unknown",
        price_data |-> price_data]

\* current_price = market_data.get('price_data', {}).get('current_price', 0)
\* in _check_price_alerts.
alert_current_price(market_data) ==
    IF market_data.price_data.has THEN market_data.price_data.current_price
    ELSE <<0, 1>>

\* An account is handed to the decoders of a monitor that was just built.
InitAccount ==
    /\ InitMonitor(NPools, NSigs)
    /\ InitOther
    /\ tx = NoTx
    /\ norm = NotRunYet
    /\ account \in Accounts
    /\ decoded = NotRunYet
    /\ ix = NoIx
    /\ ix_parsed = NotRunYet

\* pool_data = await dex_parser.parse_pool_data(pool_address)
ParsePoolData ==
    /\ "pool_data" \notin DOMAIN decoded
    /\ decoded' = DictSet(decoded, "pool_data", parse_pool_data(account))
    /\ UNCHANGED <<MonitorVars, otherVars, tx, norm, account, ix, ix_parsed>>

\* SolanaCollector._parse_jupiter_pool on an account the Jupiter program owns.
CollectorParseJupiterPool ==
    /\ account.exists
    /\ account.owner = JUPITER_PROGRAM_ID
    /\ "collector_pool" \notin DOMAIN decoded
    /\ decoded' = DictSet(decoded, "collector_pool", collector_parse_jupiter_pool(account))
    /\ UNCHANGED <<MonitorVars, otherVars, tx, norm, account, ix, ix_parsed>>

\* price_data = await market_collector.get_price_data(pool_address)
GetPriceData ==
    /\ "price_data" \notin DOMAIN decoded
    /\ decoded' = DictSet(decoded, "price_data", get_price_data(account))
    /\ UNCHANGED <<MonitorVars, otherVars, tx, norm, account, ix, ix_parsed>>

\* collect_market_data, first round: the asyncio.gather whose get_price_data
\* reads the account.
CollectGather ==
    /\ "gathered" \notin DOMAIN decoded
    /\ decoded' = DictSet(decoded, "gathered", [price_data |-> get_price_data(account)])
    /\ UNCHANGED <<MonitorVars, otherVars, tx, norm, account, ix, ix_parsed>>

\* collect_market_data, second round: parse_pool_data reads the account
\* again, which other writers may have changed, closed or created since the
\* gather, and the dict is returned.
CollectMarketData ==
    /\ "gathered" \in DOMAIN decoded
    /\ "market_data" \notin DOMAIN decoded
    /\ \E a \in Accounts :
          decoded' = DictSet(decoded, "market_data",
                             collect_market_data(decoded.gathered.price_data, a))
    /\ UNCHANGED <<MonitorVars, otherVars, tx, norm, account, ix, ix_parsed>>

NextAccount ==
    \/ ParsePoolData
    \/ GetPriceData
    \/ CollectorParseJupiterPool
    \/ CollectGather
    \/ CollectMarketData

SpecAccount == InitAccount /\ [][NextAccount]_vars

\* ------------------------------------------------------------ instruction data
\* Instruction data is a sequence of bytes; data[k] of the code is
\* data[k + 1] here.
Bytes == {0, 2, 255}
Min(a, b) == IF a < b THEN a ELSE b

\* data[offset:offset+n]: the slice is cut at the end of the data.
Slice(data, offset, n) == SubSeq(data, offset + 1, Min(offset + n, Len(data)))

\* int.from_bytes(bs, "little")
RECURSIVE from_bytes_little(_)
from_bytes_little(bs) ==
    IF bs = <<>> THEN 0 ELSE Head(bs) + 256 * from_bytes_little(Tail(bs))

IdlTypes == {"u8", "u16", "u32", "u64", "bool", "f32"}
WidthOf(type_name) ==
    CASE type_name = "u8" -> 1 [] type_name = "u16" -> 2
      [] type_name = "u32" -> 4 [] type_name = "u64" -> 8
      [] type_name = "bool" -> 1 [] OTHER -> 0

\* _parse_idl_type(data, offset, type_info) for the unsigned integer types
\* and bool: the value (<<>> is None) and the new offset.  data[offset]
\* beyond the end raises IndexError, which the except clause turns into
\* (None, offset); a slice beyond the end is short or empty.
parse_idl_type(data, offset, type_name) ==
    IF type_name \in {"u8", "bool"}
    THEN IF offset < Len(data)
         THEN [value |-> <<IF type_name = "u8" THEN data[offset + 1]
                           ELSE IF data[offset + 1] # 0 THEN 1 ELSE 0>>,
               offset |-> offset + 1]
         ELSE [value |-> <<>>, offset |-> offset]
    ELSE IF type_name \in {"u16", "u32", "u64"}
    THEN [value |-> <<from_bytes_little(Slice(data, offset, WidthOf(type_name)))>>,
          offset |-> offset + WidthOf(type_name)]
    ELSE [value |-> <<>>, offset |-> offset]

\* The loop "for arg in ix_def.get('args', [])" of _parse_program_data.
RECURSIVE ParseArgs(_, _, _)
ParseArgs(data, offset, args) ==
    IF args = <<>> THEN <<>>
    ELSE LET r == parse_idl_type(data, offset, Head(args).type)
         IN <<[name |-> Head(args).name, value |-> r.value]>>
            \o ParseArgs(data, r.offset, Tail(args))

\* The IDL of the program: one instruction definition, of this discriminator.
IdlDiscriminator == 2

\* _parse_program_data(program_id, data) on the decoded bytes: {"raw": data}
\* when the bytes are empty (decoded[0] raises) or no definition has the
\* discriminator, else the definition's name and the parsed args.
parse_program_data(i) ==
    IF i.data = <<>> \/ i.data[1] # IdlDiscriminator
    THEN [raw |-> TRUE, name |-> "unknown", args |-> <<>>]
    ELSE [raw |-> FALSE, name |-> "swap", args |-> ParseArgs(i.data, 1, i.args)]

\* SystemParser.parse_instruction(ix, tx_info): None when ix.data[0] raises,
\* else the name and the args of create_account (0) and transfer (2).
system_parse_instruction(i) ==
    IF i.data = <<>> THEN [parsed |-> FALSE, name |-> "None", args |-> <<>>]
    ELSE LET instruction_type == i.data[1]
         IN [parsed |-> TRUE,
             name |-> CASE instruction_type = 0 -> "create_account"
                        [] instruction_type = 2 -> "transfer"
                        [] OTHER -> "unknown",
             args |-> CASE instruction_type = 0 ->
                            <<[name |-> "lamports",
                               value |-> <<from_bytes_little(Slice(i.data, 1, 8))>>],
                              [name |-> "space",
                               value |-> <<from_bytes_little(Slice(i.data, 9, 4))>>]>>
                        [] instruction_type = 2 ->
                            <<[name |-> "lamports",
                               value |-> <<from_bytes_little(Slice(i.data, 1, 8))>>]>>
                        [] OTHER -> <<>>]

\* The byte buffers of up to MaxBufLen bytes and the argument lists of the
\* instruction definition.
RECURSIVE Buffers(_)
Buffers(n) ==
    IF n = 0 THEN {<<>>}
    ELSE Buffers(n - 1) \cup {Append(b, x) : b \in {c \in Buffers(n - 1) : Len(c) = n - 1},
                                             x \in Bytes}

ArgLists ==
    {<<[name |-> "slippage", type |-> "u8"]>>,
     <<[name |-> "slippage", type |-> "u8"], [name |-> "amountIn", type |-> "u16"]>>,
     <<[name |-> "amountIn", type |-> "u16"], [name |-> "exact", type |-> "bool"]>>,
     <<[name |-> "amountIn", type |-> "u64"], [name |-> "minimumAmountOut", type |-> "u64"]>>,
     <<[name |-> "price", type |-> "f32"]>>}

\* An instruction is handed to the decoders of a monitor that was just built.
InitIx ==
    /\ InitMonitor(NPools, NSigs)
    /\ InitOther
    /\ tx = NoTx
    /\ norm = NotRunYet
    /\ account = NoAccount
    /\ decoded = NotRunYet
    /\ ix \in [data : Buffers(MaxBufLen), args : ArgLists]
    /\ ix_parsed = NotRunYet

\* parsed_data = self._parse_program_data(program_id, data)
ParseProgramData ==
    /\ "program_data" \notin DOMAIN ix_parsed
    /\ ix_parsed' = DictSet(ix_parsed, "program_data", parse_program_data(ix))
    /\ UNCHANGED <<MonitorVars, otherVars, tx, norm, account, decoded, ix>>

\* SystemParser.parse_instruction(ix, tx_info)
SystemParseInstruction ==
    /\ "system" \notin DOMAIN ix_parsed
    /\ ix_parsed' = DictSet(ix_parsed, "system", system_parse_instruction(ix))
    /\ UNCHANGED <<MonitorVars, otherVars, tx, norm, account, decoded, ix>>

NextIx ==
    \/ ParseProgramData
    \/ SystemParseInstruction

SpecIx == InitIx /\ [][NextIx]_vars

\* ------------------------------------------------------------ TransactionMonitor
\* src/src/fetcher/monitor.py.  tmon holds the module's registry (monitors:
\* the object registered for the wallet, 0 when there is none), the
\* TransactionMonitor objects built so far (objs), the coroutines of
\* start_monitoring, monitor.stop() and stop_monitoring on the event loop
\* (calls) and the _monitor_loop tasks created (loops).  db is the
\* module-level Database() of storage/database.py (monitor.py l.10).

\* get_monitor(wallet_address): the registered object, built when the
\* registry has none.
get_monitor(t) ==
    IF t.monitors = 0
    THEN [t EXCEPT !.objs = Append(@, TransactionMonitorInit),
                   !.monitors = Len(t.objs) + 1]
    ELSE t

SetCall(t, c, pc, result) ==
    [t EXCEPT !.calls[c].pc = pc, !.calls[c].result = result]

StartCalls(t, m) ==
    {c \in 1..Len(t.calls) : t.calls[c].kind = "start" /\ t.calls[c].m = m}

StopCalls(t) == {c \in 1..Len(t.calls) : t.calls[c].kind # "start"}

\* start_monitoring(wallet_address): get_monitor, then start() on the object:
\* with the flag set it returns False at once, else it suspends in
\* solana_client.connect().  overlap tells whether another start() on the
\* object was suspended when this one was entered.
TmStart ==
    /\ Cardinality({c \in 1..Len(tmon.calls) : tmon.calls[c].kind = "start"})
         < MaxStartCalls
    /\ tmon.monitors # 0 \/ Len(tmon.objs) < MaxMonitors
    /\ LET got == get_monitor(tmon)
           m == got.monitors
       IN tmon' = [got EXCEPT !.calls =
                      Append(@, [kind |-> "start", m |-> m,
                                 pc |-> IF got.objs[m].active THEN "done"
                                        ELSE "connect",
                                 result |-> IF got.objs[m].active THEN "False"
                                            ELSE "None",
                                 overlap |-> \E c \in StartCalls(got, m) :
                                                got.calls[c].pc # "done"])]
    /\ UNCHANGED <<MonitorVars, parserVars, wmon, bparse, threads>>

\* One of the three subscriptions of the object exists: stop() has an
\* unsubscribe call to await.
Subscribed(o) ==
    o.account_subscription \/ o.amm_subscription \/ o.log_subscription

\* stop(), awaited by the except clause of start call c: the flag is
\* cleared; without a subscription stop() returns at once and start()
\* returns False, else the call suspends in unsubscribe.
TmStopFrom(t, c) ==
    LET m == t.calls[c].m
        cleared == [t EXCEPT !.objs[m].active = FALSE]
    IN IF Subscribed(t.objs[m])
       THEN SetCall(cleared, c, "stopping", "None")
       ELSE SetCall(cleared, c, "done", "False")

\* db.insert_monitored_address(...) of start() with a Database that has the
\* method.
insert_monitored_address_defined == "returns"

\* db.insert_monitored_address(self.wallet_address, ...) of start(): class
\* Database defines no method of this name (it has store_transaction,
\* store_pool_state, store_market_state and three get_* methods), so the
\* attribute lookup raises AttributeError.
insert_monitored_address == "AttributeError"

\* A _monitor_loop task as asyncio.create_task leaves it: it has not run yet.
NewLoop(m) == [m |-> m, pc |-> "created"]

\* start() of call c goes on when the await it is suspended in returns (ok)
\* or raises, up to its next await or its return.  After connect() comes
\* db.insert_monitored_address, then the three subscribe calls, each
\* assigning its subscription, then _load_monitored_pairs (which loads
\* nothing: db.get_monitored_pairs is no method of Database either, and the
\* AttributeError is caught inside), self.active = True, create_task and
\* return True.  Every exception leads to the except clause.
start_resume(t, c, ok) ==
    LET m == t.calls[c].m
        pc == t.calls[c].pc
    IN IF pc = "stopping" THEN SetCall(t, c, "done", "False")
       ELSE IF ~ok THEN TmStopFrom(t, c)
       ELSE IF pc = "connect"
       THEN IF insert_monitored_address = "returns"
            THEN SetCall(t, c, "subscribe_account", "None")
            ELSE TmStopFrom(t, c)
       ELSE IF pc = "subscribe_account"
       THEN [SetCall(t, c, "subscribe_program", "None")
                EXCEPT !.objs[m].account_subscription = TRUE]
       ELSE IF pc = "subscribe_program"
       THEN [SetCall(t, c, "subscribe_logs", "None")
                EXCEPT !.objs[m].amm_subscription = TRUE]
       ELSE [SetCall(t, c, "done", "True")
                EXCEPT !.objs[m].log_subscription = TRUE,
                       !.objs[m].active = TRUE,
                       !.loops = Append(@, NewLoop(m))]

\* The unsubscribe calls of stop call c are through: stop() returns, and
\* stop_monitoring deletes the registry's entry, which raises KeyError when
\* another call has deleted it since.
stop_resume(t, c) ==
    IF t.calls[c].kind = "stop" THEN SetCall(t, c, "done", "None")
    ELSE IF t.monitors # 0
    THEN [SetCall(t, c, "done", "True") EXCEPT !.monitors = 0]
    ELSE SetCall(t, c, "done", "KeyError")

\* The event loop resumes call c, whose await has returned or raised.
TmResume(c) ==
    /\ c \in 1..Len(tmon.calls)
    /\ tmon.calls[c].pc # "done"
    /\ \E ok \in BOOLEAN :
          tmon' = IF tmon.calls[c].kind = "start"
                  THEN start_resume(tmon, c, ok)
                  ELSE stop_resume(tmon, c)
    /\ UNCHANGED <<MonitorVars, parserVars, wmon, bparse, threads>>

\* stop() on object m, entered from outside start(), up to its first await:
\* the flag is cleared; the call goes on to unsubscribe when a subscription
\* exists.
StopEnter(t, m) ==
    [t EXCEPT !.objs[m].active = FALSE, !.objs[m].stops = @ + 1]

\* monitor.stop() is called on the registered object.
TmStop ==
    /\ Cardinality(StopCalls(tmon)) < MaxStopCalls
    /\ tmon.monitors # 0
    /\ LET m == tmon.monitors
           sub == Subscribed(tmon.objs[m])
       IN tmon' = [StopEnter(tmon, m) EXCEPT !.calls =
                      Append(@, [kind |-> "stop", m |-> m,
                                 pc |-> IF sub THEN "unsubscribe" ELSE "done",
                                 result |-> "None", overlap |-> FALSE])]
    /\ UNCHANGED <<MonitorVars, parserVars, wmon, bparse, threads>>

\* stop_monitoring(wallet_address): False when the registry has no monitor
\* for the wallet; else stop() on the registered object and, once it has
\* returned (at once when there is nothing to unsubscribe),
\* del monitors[wallet_address] and True.
TmStopMonitoring ==
    /\ Cardinality(StopCalls(tmon)) < MaxStopCalls
    /\ LET m == tmon.monitors
       IN tmon' =
            IF m = 0
            THEN [tmon EXCEPT !.calls =
                     Append(@, [kind |-> "stop_monitoring", m |-> 0,
                                pc |-> "done", result |-> "False",
                                overlap |-> FALSE])]
            ELSE IF Subscribed(tmon.objs[m])
            THEN [StopEnter(tmon, m) EXCEPT !.calls =
                     Append(@, [kind |-> "stop_monitoring", m |-> m,
                                pc |-> "unsubscribe", result |-> "None",
                                overlap |-> FALSE])]
            ELSE [StopEnter(tmon, m) EXCEPT
                     !.monitors = 0,
                     !.calls =
                        Append(@, [kind |-> "stop_monitoring", m |-> m,
                                   pc |-> "done", result |-> "True",
                                   overlap |-> FALSE])]
    /\ UNCHANGED <<MonitorVars, parserVars, wmon, bparse, threads>>

\* The program starts: the module is imported, no monitor was built.
InitStart ==
    /\ InitMonitor(NPools, NSigs)
    /\ tx = NoTx /\ norm = NotRunYet
    /\ account = NoAccount /\ decoded = NotRunYet
    /\ ix = NoIx /\ ix_parsed = NotRunYet
    /\ wmon = WalletMonitorInit
    /\ bparse = NoParse
    /\ threads = <<>>
    /\ tmon = MonitorsInit

\* The calls of start_monitoring, stop_monitoring and monitor.stop(), and
\* their resumptions.  No _monitor_loop task ever runs: start() creates
\* none, so _process_account_updates, _process_transaction,
\* _process_monitored_pairs and _cleanup_inactive_pairs are never entered.
NextStart ==
    \/ TmStart
    \/ TmStop
    \/ TmStopMonitoring
    \/ \E c \in 1..(MaxStartCalls + MaxStopCalls) : TmResume(c)

SpecStart == InitStart /\ [][NextStart]_vars

\* ------------------------------------------------------------ WalletMonitor
\* src/src/monitor/wallet_monitor.py.  The handlers of an iteration and the
\* calls on db are awaited calls that return or raise.  wmon.calls holds the
\* position of every start() call made on the monitor.
max_retries == 3

\* start() is called: self.is_running = True, then _initialize_monitoring is
\* awaited.
WmStart ==
    /\ Len(wmon.calls) < MaxWalletStarts
    /\ wmon' = [wmon EXCEPT !.is_running = TRUE,
                            !.calls = Append(@, [pc |-> "init"])]
    /\ UNCHANGED <<MonitorVars, parserVars, tmon, bparse, threads>>

\* _initialize_monitoring returns to call c (create_task(self._sync_data()),
\* then the first "while self.is_running"), or raises (the outer except
\* clause clears the flag and re-raises).
WmInitialized(c) ==
    /\ c \in 1..Len(wmon.calls)
    /\ wmon.calls[c].pc = "init"
    /\ \E ok \in BOOLEAN :
          wmon' = IF ok
                  THEN [wmon EXCEPT !.calls[c].pc = IF wmon.is_running
                                                    THEN "handlers" ELSE "returned"]
                  ELSE [wmon EXCEPT !.is_running = FALSE,
                                    !.calls[c].pc = "raised"]
    /\ UNCHANGED <<MonitorVars, parserVars, tmon, bparse, threads>>

\* The three handlers of an iteration of call c return:
\* self.retry_count = 0, then asyncio.sleep(1).
WmIterationOk(c) ==
    /\ c \in 1..Len(wmon.calls)
    /\ wmon.calls[c].pc = "handlers"
    /\ wmon.iterations < MaxIterations
    /\ wmon' = [wmon EXCEPT !.retry_count = 0, !.failed_in_a_row = 0,
                            !.iterations = @ + 1, !.calls[c].pc = "sleep"]
    /\ UNCHANGED <<MonitorVars, parserVars, tmon, bparse, threads>>

\* _handle_error(error), awaited by call c.
handle_error(w, c) ==
    LET counted == [w EXCEPT !.retry_count = @ + 1]
    IN IF counted.retry_count >= max_retries
       THEN [counted EXCEPT !.is_running = FALSE, !.calls[c].pc = "sleep"]
       ELSE [counted EXCEPT !.calls[c].pc = "retry_delay"]

\* A handler of the iteration of call c raises: _handle_error is awaited.
WmIterationFail(c) ==
    /\ c \in 1..Len(wmon.calls)
    /\ wmon.calls[c].pc = "handlers"
    /\ wmon.iterations < MaxIterations
    /\ wmon' = handle_error([wmon EXCEPT !.failed_in_a_row = @ + 1,
                                         !.iterations = @ + 1], c)
    /\ UNCHANGED <<MonitorVars, parserVars, tmon, bparse, threads>>

\* asyncio.sleep(self.retry_delay) in _handle_error is over: asyncio.sleep(1).
WmRetryDelayOver(c) ==
    /\ c \in 1..Len(wmon.calls)
    /\ wmon.calls[c].pc = "retry_delay"
    /\ wmon' = [wmon EXCEPT !.calls[c].pc = "sleep"]
    /\ UNCHANGED <<MonitorVars, parserVars, tmon, bparse, threads>>

\* asyncio.sleep(1) is over: "while self.is_running"; start() returns when
\* the flag is cleared.
WmWake(c) ==
    /\ c \in 1..Len(wmon.calls)
    /\ wmon.calls[c].pc = "sleep"
    /\ wmon' = [wmon EXCEPT !.calls[c].pc = IF wmon.is_running
                                            THEN "handlers" ELSE "returned"]
    /\ UNCHANGED <<MonitorVars, parserVars, tmon, bparse, threads>>

\* stop() is called.
WmStop ==
    /\ wmon' = [wmon EXCEPT !.is_running = FALSE]
    /\ UNCHANGED <<MonitorVars, parserVars, tmon, bparse, threads>>

InitWallet == InitFor(NPools, NSigs)

NextWallet ==
    \/ WmStart
    \/ WmStop
    \/ \E c \in 1..MaxWalletStarts :
          \/ WmInitialized(c)
          \/ WmIterationOk(c)
          \/ WmIterationFail(c)
          \/ WmRetryDelayOver(c)
          \/ WmWake(c)

SpecWallet == InitWallet /\ [][NextWallet]_vars

\* ------------------------------------------------------------ BaseParser
\* src/src/parser/base.py: _parse_transaction_info.
\* A top-level or inner instruction is what the parsers make of it: "parsed"
\* (a parser is registered for its program and returns a ParsedInstruction),
\* "unregistered" (program_parsers has no entry for its program), "none" (the
\* registered parser returns None).
IxKinds == {"parsed", "unregistered", "none"}
InnerLists == {<<"parsed">>, <<"unregistered">>, <<"parsed", "parsed">>}

\* meta.inner_instructions: one group per top-level position that made
\* inner calls, in ascending order of index (positions count from 0).
RECURSIVE InnerGroups(_, _, _)
InnerGroups(f, idx, n) ==
    IF idx >= n THEN <<>>
    ELSE (IF f[idx] = <<>> THEN <<>>
          ELSE <<[index |-> idx, instructions |-> f[idx]]>>)
         \o InnerGroups(f, idx + 1, n)

TxInfos ==
    UNION {{[instructions |-> tops, inner_instructions |-> InnerGroups(f, 0, n)] :
               tops \in [1..n -> IxKinds],
               f \in [0..(n - 1) -> {<<>>} \cup InnerLists]} :
           n \in 1..MaxTopLevel}

\* for idx, ix in enumerate(message.instructions): the ParsedInstruction
\* objects appended, each known by the position of the instruction it was
\* parsed from.
RECURSIVE ParsedTopLevel(_, _)
ParsedTopLevel(tops, idx) ==
    IF idx >= Len(tops) THEN <<>>
    ELSE (IF tops[idx + 1] = "parsed"
          THEN <<[top |-> idx, inner_instructions |-> <<>>]>>
          ELSE <<>>)
         \o ParsedTopLevel(tops, idx + 1)

\* for inner_ix in inner.instructions: the parsed inner instructions of one
\* group, each known by its group's index and its position in the group.
RECURSIVE ParsedInner(_, _)
ParsedInner(inner, j) ==
    IF j > Len(inner.instructions) THEN <<>>
    ELSE (IF inner.instructions[j] = "parsed"
          THEN <<[index |-> inner.index, pos |-> j]>>
          ELSE <<>>)
         \o ParsedInner(inner, j + 1)

\* The parent position taken for a group: parent_idx = inner.index.
ParentIdx(inner, instructions) == inner.index

\* for inner in tx_info.meta.inner_instructions
RECURSIVE AttachInner(_, _)
AttachInner(instructions, groups) ==
    IF groups = <<>> THEN instructions
    ELSE LET inner == Head(groups)
             parent_idx == ParentIdx(inner, instructions)
             inner_instructions == ParsedInner(inner, 1)
         IN AttachInner(
                IF parent_idx < Len(instructions) /\ inner_instructions # <<>>
                THEN [instructions EXCEPT ![parent_idx + 1].inner_instructions =
                                              inner_instructions]
                ELSE instructions,
                Tail(groups))

\* _parse_transaction_info(tx_info): the instructions of the
\* ParsedTransaction.
parse_transaction_info(tx_info) ==
    [instructions |->
        AttachInner(ParsedTopLevel(tx_info.instructions, 0),
                    tx_info.inner_instructions)]

\* A transaction's information is handed to a parser that was just built.
InitInner ==
    /\ InitMonitor(NPools, NSigs)
    /\ tx = NoTx /\ norm = NotRunYet
    /\ account = NoAccount /\ decoded = NotRunYet
    /\ ix = NoIx /\ ix_parsed = NotRunYet
    /\ tmon = MonitorsInit
    /\ wmon = WalletMonitorInit
    /\ threads = <<>>
    /\ bparse \in {[input |-> <<t>>, result |-> <<>>] : t \in TxInfos}

ParseTransactionInfo ==
    /\ bparse.input # <<>>
    /\ bparse.result = <<>>
    /\ bparse' = [bparse EXCEPT !.result = <<parse_transaction_info(bparse.input[1])>>]
    /\ UNCHANGED <<MonitorVars, parserVars, tmon, wmon, threads>>

NextInner == ParseTransactionInfo

SpecInner == InitInner /\ [][NextInner]_vars

\* src/src/parser/base.py: parse_logs.
\* A log line is the sequence of its words, what log.split(" ") gives:
\* invocations of two programs, their return lines, and two message lines.
LogLines ==
    {<<"Program", "P1", "invoke">>, <<"Program", "P2", "invoke">>,
     <<"Program", "return:", "P1">>, <<"Program", "return:", "P2">>,
     <<"hello">>, <<"Transfer", "ok">>}

LogSeqs == UNION {[1..n -> LogLines] : n \in 0..MaxLogLines}

\* log.startswith(prefix) for a prefix of whole words that ends in a space:
\* the line starts with these words and goes on after them.
startswith(log, words) ==
    /\ Len(log) > Len(words)
    /\ SubSeq(log, 1, Len(words)) = words

\* One round of `for log in logs`, on the locals of parse_logs.
parse_log_line(st, log) ==
    IF startswith(log, <<"Program">>)
    THEN [st EXCEPT
            !.call_stack = Append(@, [program_id |-> log[2],
                                      depth |-> st.current_depth,
                                      logs |-> <<>>]),
            !.current_depth = @ + 1]
    ELSE IF startswith(log, <<"Program", "return:">>)
    THEN IF st.call_stack # <<>>
         THEN [st EXCEPT
                 !.current_depth = @ - 1,
                 !.parsed_logs = Append(@, st.call_stack[Len(st.call_stack)]),
                 !.call_stack = SubSeq(@, 1, Len(@) - 1)]
         ELSE st
    ELSE IF st.call_stack # <<>>
         THEN [st EXCEPT !.call_stack[Len(st.call_stack)].logs = Append(@, log)]
         ELSE st

RECURSIVE parse_logs_from(_, _)
parse_logs_from(st, logs) ==
    IF logs = <<>> THEN st
    ELSE parse_logs_from(parse_log_line(st, Head(logs)), Tail(logs))

\* parse_logs(logs): the list returned, with the call stack and the depth as
\* they are at the return.
parse_logs(logs) ==
    parse_logs_from([parsed_logs |-> <<>>, call_stack |-> <<>>,
                     current_depth |-> 0], logs)

\* A transaction's log is handed to a parser that was just built.
InitLogs ==
    /\ InitMonitor(NPools, NSigs)
    /\ tx = NoTx /\ norm = NotRunYet
    /\ account = NoAccount /\ decoded = NotRunYet
    /\ ix = NoIx /\ ix_parsed = NotRunYet
    /\ tmon = MonitorsInit
    /\ wmon = WalletMonitorInit
    /\ threads = <<>>
    /\ bparse \in {[input |-> <<logs>>, result |-> <<>>] : logs \in LogSeqs}

ParseLogs ==
    /\ bparse.input # <<>>
    /\ bparse.result = <<>>
    /\ bparse' = [bparse EXCEPT !.result = <<parse_logs(bparse.input[1])>>]
    /\ UNCHANGED <<MonitorVars, parserVars, tmon, wmon, threads>>

NextLogs == ParseLogs

SpecLogs == InitLogs /\ [][NextLogs]_vars

\* ------------------------------------------------------------ specifications
TaskIds == {<<p, i>> \in Pools \X (1..MaxTasksPerPool) : i <= Len(tasks[p])}

\* The whole monitor for an address that trades on NPools pools; every pool
\* account shows one state, failures are not counted.
Next ==
    \/ NewTx(NSigs)
    \/ StartMonitoring
    \/ DiscSignatures
    \/ DiscRaise
    \/ DiscSkip
    \/ DiscSwap(NPools)
    \/ DiscTradeDetected
    \/ DiscWake
    \/ \E t \in TaskIds : TaskCancelledUnstarted(t[1], t[2])
    \/ \E t \in TaskIds : TaskStart(t[1], t[2])
    \/ \E t \in TaskIds : TaskCancelled(t[1], t[2])
    \/ \E t \in TaskIds : TaskUpdate(t[1], t[2], DataAt(3), FALSE)
    \/ \E t \in TaskIds : TaskFail(t[1], t[2], FALSE)
    \/ \E t \in TaskIds : TaskWake(t[1], t[2])
    \/ WorkerCheck
    \/ WorkerGet
    \/ WorkerStore
    \/ WorkerStoreRaise
    \/ StopMonitoring
    \/ StopGathered
    \/ StopJoined
    \/ StopReturn
    \/ \E i \in 1..MaxPoolStops : EarlierStopGathered(i)
    \/ \E i \in 1..MaxPoolStops : EarlierStopJoined(i)
    \/ \E i \in 1..MaxPoolStops : EarlierStopReturn(i)

Spec == Init /\ [][Next]_vars

\* The whole monitor for an address that trades on one pool whose account
\* is served as of any of Slots, or not at all.
NextPool ==
    \/ NewTx(NSigs)
    \/ StartMonitoring
    \/ DiscSignatures
    \/ DiscRaise
    \/ DiscSkip
    \/ DiscSwap(1)
    \/ DiscTradeDetected
    \/ DiscWake
    \/ \E t \in TaskIds : TaskCancelledUnstarted(t[1], t[2])
    \/ \E t \in TaskIds : TaskStart(t[1], t[2])
    \/ \E t \in TaskIds : TaskCancelled(t[1], t[2])
    \/ \E t \in TaskIds, md \in MarketData : TaskUpdate(t[1], t[2], md, FALSE)
    \/ \E t \in TaskIds : TaskFail(t[1], t[2], FALSE)
    \/ \E t \in TaskIds : TaskWake(t[1], t[2])
    \/ WorkerCheck
    \/ WorkerGet
    \/ WorkerStore
    \/ WorkerStoreRaise
    \/ StopMonitoring
    \/ StopGathered
    \/ StopJoined
    \/ StopReturn
    \/ \E i \in 1..MaxPoolStops : EarlierStopGathered(i)
    \/ \E i \in 1..MaxPoolStops : EarlierStopJoined(i)
    \/ \E i \in 1..MaxPoolStops : EarlierStopReturn(i)

SpecPool == InitPool /\ [][NextPool]_vars

\* The steps of the coroutines on the event loop, of the worker thread and of
\* stop_monitoring.
LoopStep ==
    \/ DiscSignatures
    \/ DiscRaise
    \/ DiscSkip
    \/ DiscSwap(NPools)
    \/ DiscTradeDetected
    \/ DiscWake
    \/ \E t \in TaskIds : TaskCancelledUnstarted(t[1], t[2])
    \/ \E t \in TaskIds : TaskStart(t[1], t[2])
    \/ \E t \in TaskIds : TaskCancelled(t[1], t[2])
    \/ \E t \in TaskIds : TaskUpdate(t[1], t[2], DataAt(3), FALSE)
    \/ \E t \in TaskIds : TaskFail(t[1], t[2], FALSE)
    \/ \E t \in TaskIds : TaskWake(t[1], t[2])
WorkerStep == WorkerCheck \/ WorkerGet \/ WorkerStore \/ WorkerStoreRaise
StopStep ==
    \/ StopGathered
    \/ StopJoined
    \/ StopReturn
    \/ \E i \in 1..MaxPoolStops :
          EarlierStopGathered(i) \/ EarlierStopJoined(i) \/ EarlierStopReturn(i)

\* The whole monitor under fair scheduling: the event loop goes on running
\* ready coroutines, the operating system goes on running the worker thread,
\* and stop_monitoring goes on whenever what it waits for is there.
SpecFair ==
    /\ Init
    /\ [][Next]_vars
    /\ WF_vars(LoopStep)
    /\ WF_vars(WorkerStep)
    /\ WF_vars(StopStep)

\* The whole monitor, with further start_monitoring calls.
NextRestart ==
    \/ Next
    \/ RestartMonitoring
    \/ \E i \in 1..MaxRestarts :
          \/ ThreadCheck(i)
          \/ ThreadGet(i)
          \/ ThreadStore(i)
          \/ ThreadStoreRaise(i)
          \/ EarlierSignatures(i)
          \/ EarlierRaise(i)
          \/ EarlierSkip(i)
          \/ EarlierSwap(i, NPools)
          \/ EarlierTradeDetected(i)
          \/ EarlierWake(i)

SpecRestart == Init /\ [][NextRestart]_vars

\* The whole monitor for an address that trades on one pool whose fetches
\* succeed, return nothing or raise; each task's consecutive failed
\* iterations are counted, up to MaxFails.
NextFail ==
    \/ NewTx(NSigs)
    \/ StartMonitoring
    \/ DiscSignatures
    \/ DiscRaise
    \/ DiscSkip
    \/ DiscSwap(1)
    \/ DiscTradeDetected
    \/ DiscWake
    \/ \E t \in TaskIds : TaskCancelledUnstarted(t[1], t[2])
    \/ \E t \in TaskIds : TaskStart(t[1], t[2])
    \/ \E t \in TaskIds : TaskCancelled(t[1], t[2])
    \/ \E t \in TaskIds, md \in {DataAt(3), EmptyData} :
          TaskUpdate(t[1], t[2], md, TRUE)
    \/ \E t \in TaskIds : TaskFail(t[1], t[2], TRUE)
    \/ \E t \in TaskIds : TaskWake(t[1], t[2])
    \/ WorkerCheck
    \/ WorkerGet
    \/ WorkerStore
    \/ WorkerStoreRaise
    \/ StopMonitoring
    \/ StopGathered
    \/ StopJoined
    \/ StopReturn
    \/ \E i \in 1..MaxPoolStops : EarlierStopGathered(i)
    \/ \E i \in 1..MaxPoolStops : EarlierStopJoined(i)
    \/ \E i \in 1..MaxPoolStops : EarlierStopReturn(i)

SpecFail == InitPool /\ [][NextFail]_vars

\* Discovery for an address that trades on WidePools pools, each pool task
\* taking its first step and then waiting for its first answer.
NextWide ==
    \/ NewTx(WidePools)
    \/ StartMonitoring
    \/ DiscSignatures
    \/ DiscSwap(WidePools)
    \/ DiscTradeDetected
    \/ DiscWake
    \/ \E t \in TaskIds : TaskStart(t[1], t[2])

SpecWide == InitWide /\ [][NextWide]_vars

\* The callback registry on its own: registrations and publications.
NextCb ==
    \/ \E e \in EventTypes \cup {"other"}, r \in RaiseKinds : AddCallback(e, r)
    \/ \E e \in EventTypes \cup {"other"} : TriggerCallbacks(e)

SpecCb == Init /\ [][NextCb]_vars

\* ------------------------------------------------------------ claims
LiveTasks(p) == {i \in 1..Len(tasks[p]) : tasks[p][i].pc # "done"}

\* C1: every pool address has at most one monitoring task scheduled or
\* running at any time; observing a pool that already has an entry in
\* pool_tasks creates no second task.
C1_OneTaskPerPool == \A p \in Pools : Cardinality(LiveTasks(p)) <= 1

\* A pool whose swap was observed twice while its first task is registered
\* and alive, and no other task was created for it.
C1_Witness ==
    \E s \in Sigs :
        LET p == PoolOfSig(s, NPools)
        IN /\ puts[s] >= 2
           /\ Len(tasks[p]) = 1
           /\ tasks[p][1].pc \in {"fetch", "sleep", "backoff"}
           /\ p \in DOMAIN pool_tasks

\* C2: each signature returned for the monitored address causes at most one
\* 'trade' item to be put on the work queue and at most one trade_detected
\* publication, over any number of polling iterations.
C2_NoDuplicateTrade ==
    \A s \in Sigs : puts[s] <= 1 /\ trade_events[s] <= 1

\* C3: at the step in which a stop_monitoring call gets past join() and calls
\* client.close(), every item put on the work queue has been taken by the
\* worker and stored: nothing is on the queue or in the worker's hands.
C3_GracefulDrain ==
    [][(\/ stop.pc = "join" /\ stop'.pc = "closing"
        \/ \E i \in 1..Len(stop.earlier) :
              stop.earlier[i].pc = "join" /\ stop'.earlier[i].pc = "closing")
        => /\ data_queue' = <<>>
           /\ worker'.pc # "store"
           /\ \A s \in Sigs : stored'[s] = puts'[s]]_vars

\* The client was released after a trade item had been enqueued and stored.
C3_Witness ==
    /\ stop.pc = "closing"
    /\ \E s \in Sigs : puts[s] >= 1 /\ stored[s] = puts[s]

\* C4: an update that takes a pool's stored price from 100 to 98 publishes a
\* price_alert with old price 100 and current price 98 (-2%); an update from
\* 100 to 99.5 publishes none.
C4_ThresholdAlert ==
    [][\A p \in Pools :
         (/\ p \in DOMAIN monitored_pools
          /\ monitored_pools[p].has
          /\ monitored_pools[p].price = 1000
          /\ monitored_pools'[p].has)
         => /\ monitored_pools'[p].price = 980
               => [pool |-> p, old_price |-> 1000, current_price |-> 980] \in alerts'
            /\ monitored_pools'[p].price = 995
               => [pool |-> p, old_price |-> 1000, current_price |-> 995] \notin alerts']_vars

\* C5: an update whose slot is at most the stored slot never overwrites the
\* stored reserves/price (so after slots 5, 3, 7 the slot-5 state is never
\* replaced by the slot-3 state).
C5_MonotonicSlot ==
    [][\A p \in Pools :
         (/\ p \in DOMAIN monitored_pools
          /\ monitored_pools[p].has
          /\ monitored_pools'[p].has
          /\ monitored_pools'[p] # monitored_pools[p])
         => monitored_pools'[p].slot > monitored_pools[p].slot]_vars

\* The callbacks registered for event type e.
CallbacksOf(e) == IF e \in EventTypes THEN callbacks[e] ELSE <<>>

\* C6 as claimed: a publication of an event type invokes every callback
\* registered for that type exactly once, in registration order, also after
\* a callback that raises, whatever it raises; it invokes no callback of
\* another type and no exception leaves _trigger_callbacks.
C6_CallbackIsolation ==
    [][\A e \in EventTypes \cup {"other"} :
         TriggerCallbacks(e)
         => /\ cb_calls' = cb_calls \o CallbackIds(CallbacksOf(e))
            /\ ~cb_escaped']_vars

\* No callback registered for event type e raises an exception that is not
\* derived from Exception.
RaisesOnlyExceptions(e) ==
    \A i \in 1..Len(CallbacksOf(e)) : CallbacksOf(e)[i].raises # "BaseException"

\* The first callback of event type e that raises an exception not derived
\* from Exception.
FirstEscaping(e) ==
    CHOOSE i \in 1..Len(CallbacksOf(e)) :
        /\ CallbacksOf(e)[i].raises = "BaseException"
        /\ \A j \in 1..(i - 1) : CallbacksOf(e)[j].raises # "BaseException"

\* C6 amended: when every exception the callbacks of the published type
\* raise derives from Exception, the publication invokes each of them
\* exactly once, in registration order, also after one that raises, invokes
\* no callback of another type, and no exception leaves _trigger_callbacks.
\* An exception that does not derive from Exception ends the publication
\* at the callback that raised it and leaves _trigger_callbacks.
C6_ExceptionIsolation ==
    [][\A e \in EventTypes \cup {"other"} :
         TriggerCallbacks(e)
         => IF RaisesOnlyExceptions(e)
            THEN /\ cb_calls' = cb_calls \o CallbackIds(CallbacksOf(e))
                 /\ ~cb_escaped'
            ELSE /\ cb_calls' = cb_calls \o SubSeq(CallbackIds(CallbacksOf(e)),
                                                   1, FirstEscaping(e))
                 /\ cb_escaped']_vars

\* An event type with two callbacks, the first of which raises an Exception,
\* was published: both were invoked and nothing left _trigger_callbacks.
C6_Witness ==
    \E e \in EventTypes :
        /\ Len(callbacks[e]) >= 2
        /\ callbacks[e][1].raises = "Exception"
        /\ cb_calls = CallbackIds(callbacks[e])
        /\ ~cb_escaped

\* C7: a pool task leaves its loop only when the active flag is cleared or
\* the task was cancelled, and every failed iteration ends in a sleep after
\* which the task retries, however many failures came before.
C7_FailuresNeverStop ==
    [][\A p \in Pools : \A i \in 1..Len(tasks[p]) :
         /\ (tasks[p][i].pc \in {"fetch", "sleep", "backoff"}
             /\ tasks'[p][i].pc = "done")
            => (~active \/ tasks[p][i].cancel)
         /\ tasks'[p][i].fails > tasks[p][i].fails
            => tasks'[p][i].pc \in {"sleep", "backoff"}]_vars

\* A task that is fetching again after three consecutive failed iterations.
C7_Witness ==
    \E p \in Pools : \E i \in 1..Len(tasks[p]) :
        /\ tasks[p][i].fails >= 3
        /\ tasks[p][i].pc = "fetch"
        /\ active

\* C8: once stop_monitoring has returned, the discovery loop has ended and
\* no pool task is left scheduled or running, pool_tasks has no entry (the
\* registry was released).
C8_StoppedReleasesRegistry ==
    (/\ stop.pc = "stopped"
     /\ disc.pc = "done"
     /\ \A p \in Pools : LiveTasks(p) = {})
    => DOMAIN pool_tasks = {}

\* C9: while the active flag is true the discovery loop has not ended,
\* whatever get_signatures_for_address and get_transaction raised.
C9_DiscoverySurvivesFailure ==
    (active /\ disc.pc # "idle") => disc.pc # "done"

\* C10: the number of pool tasks existing at the same time never exceeds
\* max_workers.
C10_BoundedConcurrency ==
    Cardinality({t \in TaskIds : tasks[t[1]][t[2]].pc # "done"}) <= max_workers

\* C11: the work queue has a finite capacity and, whenever it holds items,
\* its length is within that capacity (a producer facing a full queue waits
\* for the worker instead of adding to it).
C11_BoundedQueue ==
    data_queue # <<>> => (maxsize > 0 /\ Len(data_queue) <= maxsize)

\* The balance deltas of transaction t show an inflow to / an outflow from
\* an entry owned by address a.
HasInflow(t, a) ==
    \E i \in 1..Len(t.postTokenBalances) :
        LET b == t.postTokenBalances[i]
        IN /\ b.owner = a
           /\ IF HasKey(t.preTokenBalances, BalKey(b))
              THEN b.uiAmount > DictGet(t.preTokenBalances, BalKey(b)).uiAmount
              ELSE b.uiAmount > 0
HasOutflow(t, a) ==
    \E i \in 1..Len(t.postTokenBalances) :
        LET b == t.postTokenBalances[i]
        IN /\ HasKey(t.preTokenBalances, BalKey(b))
           /\ DictGet(t.preTokenBalances, BalKey(b)).owner = a
           /\ b.uiAmount < DictGet(t.preTokenBalances, BalKey(b)).uiAmount
Actors(t) ==
    {a \in {t.accountKeys[i] : i \in 1..Len(t.accountKeys)} :
        HasInflow(t, a) /\ HasOutflow(t, a)}

\* C12: for a transaction whose balance deltas show two or more addresses
\* that each have an inflow and an outflow, swap extraction reports no input
\* and no output token, and takes none of the addresses as the trader.
C12_AmbiguitySuppressed ==
    ("swap_info" \in DOMAIN norm /\ Cardinality(Actors(tx)) >= 2)
    => /\ norm.swap_info.input_token = "None"
       /\ norm.swap_info.output_token = "None"
       /\ norm.swap_info.trader = "None"

\* Swap extraction has run on a transaction in which traderX and poolAddrP
\* each have an inflow and an outflow, and has reported no swap: it ended
\* with the AttributeError of the first transfer.
C12_Witness ==
    /\ "swap_info" \in DOMAIN norm
    /\ Actors(tx) = {"traderX", "poolAddrP"}
    /\ norm.swap_info.raised
    /\ norm.swap_info.input_token = "None"

\* The transaction of the end-to-end scenario: traderX holds USDC 1000
\* before, USDC 900 and SOL 5 after; the SOL entry has no counterpart before.
IsEndToEndTx(t) ==
    /\ ~t.err
    /\ t.accountKeys = <<"traderX", "poolAddrP">>
    /\ t.preTokenBalances = <<Balance(0, "USDC", 1000)>>
    /\ t.postTokenBalances = <<Balance(0, "USDC", 900), Balance(0, "SOL", 5)>>

\* C13: for the end-to-end transaction every normalizer that ran reports the
\* swap USDC 100 -> SOL 5 of traderX and nothing else: _extract_swap_info
\* as input and output token, parse_transaction as the two token transfers.
C13_EndToEnd ==
    IsEndToEndTx(tx)
    => /\ "swap_info" \in DOMAIN norm
          => /\ norm.swap_info.input_token = "USDC"
             /\ norm.swap_info.input_amount = 100
             /\ norm.swap_info.output_token = "SOL"
             /\ norm.swap_info.output_amount = 5
       /\ "parsed" \in DOMAIN norm
          => /\ Len(norm.parsed.token_transfers) = 2
             /\ \E i \in 1..2 :
                   /\ norm.parsed.token_transfers[i].token = "USDC"
                   /\ norm.parsed.token_transfers[i].from_address = "traderX"
                   /\ norm.parsed.token_transfers[i].amount = 100
             /\ \E i \in 1..2 :
                   /\ norm.parsed.token_transfers[i].token = "SOL"
                   /\ norm.parsed.token_transfers[i].to_address = "traderX"
                   /\ norm.parsed.token_transfers[i].amount = 5

\* C14: for a transaction whose meta.err is set no swap is extracted, no
\* trade_detected event is published and no record marked successful is
\* put on the work queue or stored, whatever its balances and instructions are.
C14_FailedTxNoSwap ==
    (tx.signature # "None" /\ tx.err)
    => /\ "swap_info" \in DOMAIN norm
          => /\ norm.swap_info.input_token = "None"
             /\ norm.swap_info.output_token = "None"
       /\ "trade" \in DOMAIN norm
          => /\ ~norm.trade.swap_data.has
             /\ ~norm.trade.trade_detected
             /\ norm.trade.data_queue = <<>>
             /\ norm.trade.item = <<>>
             /\ \A i \in 1..Len(norm.trade.records) : ~norm.trade.records[i].success

\* The account's owner is no registered program.
UnknownProtocol(a) ==
    a.exists /\ a.owner \notin {JUPITER_PROGRAM_ID, ORCA_PROGRAM_ID, RAYDIUM_PROGRAM_ID}

\* C15: decoding an account of an unregistered program, or with a
\* placeholder layout, never yields the empty record, its outcome differs
\* from the outcome for a registered program's account, and the price read
\* downstream from the collected market data is not zero.
C15_UnknownProtocolExplicit ==
    /\ ("pool_data" \in DOMAIN decoded /\ UnknownProtocol(account))
       => /\ decoded.pool_data # EmptyPoolData
          /\ \A a \in Accounts :
                (a.exists /\ ~UnknownProtocol(a))
                => parse_pool_data(a) # decoded.pool_data
    /\ "collector_pool" \in DOMAIN decoded
       => decoded.collector_pool # EmptyPoolData
    /\ ("market_data" \in DOMAIN decoded /\ UnknownProtocol(account))
       => alert_current_price(decoded.market_data)[1] # 0

\* The offset one past the last byte of argument k of an argument list read
\* from offset 1 on.
RECURSIVE ArgEnd(_, _)
ArgEnd(args, k) == IF k = 0 THEN 1 ELSE ArgEnd(args, k - 1) + WidthOf(args[k].type)

\* C16: when the data is shorter than the layout requires, the outcome is a
\* failure and not a parsed instruction, so that no argument whose bytes lie
\* wholly or partly beyond the end of the data has a decoded value
\* (_parse_program_data for the IDL arguments, where the fallback
\* {"raw": data} is the only outcome that is not a parsed instruction;
\* SystemParser.parse_instruction for transfer's lamports in bytes 1..8).
C16_BufferTooShort ==
    /\ "program_data" \in DOMAIN ix_parsed
       => \A k \in 1..Len(ix.args) :
             (WidthOf(ix.args[k].type) > 0 /\ ArgEnd(ix.args, k) > Len(ix.data))
             => /\ ix_parsed.program_data.raw
                /\ \A j \in 1..Len(ix_parsed.program_data.args) :
                      ix_parsed.program_data.args[j].name # ix.args[k].name
    /\ ("system" \in DOMAIN ix_parsed /\ ix.data # <<>> /\ ix.data[1] = 2
        /\ Len(ix.data) < 9)
       => ~ix_parsed.system.parsed

\* A task that waits for its next retry after a failed iteration: in the
\* back-off sleep after an exception, or in the sleep after a poll that
\* returned no price data.
Degraded(p, i) ==
    \/ tasks[p][i].pc = "backoff"
    \/ tasks[p][i].pc = "sleep" /\ tasks[p][i].fails > 0

\* C17: while a pool's task waits for its next retry after a failed
\* iteration, the pool address has an entry in pool_tasks.
C17_DegradedStaysListed ==
    \A p \in Pools : \A i \in 1..Len(tasks[p]) :
        Degraded(p, i) => p \in DOMAIN pool_tasks

\* A task in its back-off wait after two consecutive failures, its pool
\* still registered, while the monitor is active.
C17_Witness ==
    \E p \in Pools : \E i \in 1..Len(tasks[p]) :
        /\ tasks[p][i].pc = "backoff"
        /\ tasks[p][i].fails >= 2
        /\ active
        /\ p \in DOMAIN pool_tasks
        /\ pool_tasks[p] = i

\* C18: once stop_monitoring has cleared the active flag, no step creates a
\* pool task or calls _process_trade (a put and a trade_detected
\* publication), also not for the signatures left in the batch the
\* discovery loop was iterating.
C18_StopEndsDiscovery ==
    [][(stop.pc # "idle" /\ ~active)
        => /\ \A p \in Pools : Len(tasks'[p]) = Len(tasks[p])
           /\ puts' = puts
           /\ trade_events' = trade_events]_vars

\* C19: a poll that yields no price data, of a pool whose entry in
\* monitored_pools holds a price, leaves the entry as it was.
C19_DecodeFailureNoOp ==
    [][\A t \in TaskIds :
         (/\ t[1] \in DOMAIN monitored_pools
          /\ monitored_pools[t[1]].has
          /\ TaskUpdate(t[1], t[2], EmptyData, FALSE))
         => monitored_pools' = monitored_pools]_vars

\* The entry of pool p is written in this step.
Written(p) ==
    /\ p \in DOMAIN monitored_pools'
    /\ p \notin DOMAIN monitored_pools \/ monitored_pools'[p] # monitored_pools[p]

\* C20: an entry of monitored_pools is written only by a step of that
\* pool's own task (its _update_pool_state between the fetch and the sleep),
\* which is then the only task of the pool that exists; the discovery loop
\* with _process_trade does not move in such a step.
C20_SingleWriter ==
    [][\A p \in Pools :
         Written(p)
         => /\ \E i \in LiveTasks(p) :
                  /\ LiveTasks(p) = {i}
                  /\ tasks[p][i].pc = "fetch"
                  /\ tasks'[p][i].pc = "sleep"
            /\ \A q \in Pools \ {p} : tasks'[q] = tasks[q]
            /\ disc' = disc
            /\ puts' = puts]_vars

\* The entry of a pool has been written by its task, which sleeps until its
\* next poll, and _process_trade has read the entry for two observations
\* of a swap on that pool.
C20_Witness ==
    \E p \in Pools :
        /\ p \in DOMAIN monitored_pools
        /\ monitored_pools[p].has
        /\ monitored_pools[p].slot = 5
        /\ \E i \in 1..Len(tasks[p]) : tasks[p][i].pc = "sleep"
        /\ \E sg \in Sigs : puts[sg] >= 2

\* The outflows and the inflows of address a in the balance deltas of
\* transaction t: account index, mint and amount in whole tokens.
OutflowLegs(t, a) ==
    {[index |-> b.accountIndex, token |-> b.mint,
      amount |-> DictGet(t.preTokenBalances, BalKey(b)).uiAmount - b.uiAmount] :
        b \in {t.postTokenBalances[i] : i \in
                   {j \in 1..Len(t.postTokenBalances) :
                       /\ HasKey(t.preTokenBalances, BalKey(t.postTokenBalances[j]))
                       /\ DictGet(t.preTokenBalances,
                                  BalKey(t.postTokenBalances[j])).owner = a
                       /\ t.postTokenBalances[j].uiAmount
                          < DictGet(t.preTokenBalances,
                                    BalKey(t.postTokenBalances[j])).uiAmount}}}
InflowLegs(t, a) ==
    {[index |-> b.accountIndex, token |-> b.mint,
      amount |-> IF HasKey(t.preTokenBalances, BalKey(b))
                 THEN b.uiAmount - DictGet(t.preTokenBalances, BalKey(b)).uiAmount
                 ELSE b.uiAmount] :
        b \in {t.postTokenBalances[i] : i \in
                   {j \in 1..Len(t.postTokenBalances) :
                       /\ t.postTokenBalances[j].owner = a
                       /\ IF HasKey(t.preTokenBalances, BalKey(t.postTokenBalances[j]))
                          THEN t.postTokenBalances[j].uiAmount
                               > DictGet(t.preTokenBalances,
                                         BalKey(t.postTokenBalances[j])).uiAmount
                          ELSE t.postTokenBalances[j].uiAmount > 0}}}

\* The legs of largest amount and, among these, of smallest account index.
LargestLegs(legs) ==
    {l \in legs : \A m \in legs :
        m.amount < l.amount \/ (m.amount = l.amount /\ m.index >= l.index)}

\* C21: when exactly one address has an outflow and an inflow, the input leg
\* reported by swap extraction is that address's outflow of largest amount
\* and the output leg its inflow of largest amount, the leg of the smaller
\* account index among legs of equal largest amount, in whatever order the
\* balance entries are listed.
C21_LegSelection ==
    ("swap_info" \in DOMAIN norm /\ Cardinality(Actors(tx)) = 1)
    => \A a \in Actors(tx) :
          /\ \E l \in LargestLegs(OutflowLegs(tx, a)) :
                /\ norm.swap_info.input_token = l.token
                /\ norm.swap_info.input_amount = l.amount
          /\ \E l \in LargestLegs(InflowLegs(tx, a)) :
                /\ norm.swap_info.output_token = l.token
                /\ norm.swap_info.output_amount = l.amount

\* C26: whatever the interleaving of the start() calls made on one monitor
\* on which stop() was never called from outside, at most one _monitor_loop
\* task has been created for it and at most one of the calls has returned
\* True.
C26_StartIdempotent ==
    \A m \in 1..Len(tmon.objs) :
        tmon.objs[m].stops = 0
        => /\ Cardinality({l \in 1..Len(tmon.loops) : tmon.loops[l].m = m}) <= 1
           /\ Cardinality({c \in StartCalls(tmon, m) :
                              /\ tmon.calls[c].pc = "done"
                              /\ tmon.calls[c].result = "True"}) <= 1

\* Two start() calls on one monitor, the second entered while the first was
\* suspended in connect(), have both returned: each returned False and no
\* _monitor_loop task exists.
C26_Witness ==
    \E m \in 1..Len(tmon.objs) :
        /\ tmon.objs[m].stops = 0
        /\ tmon.loops = <<>>
        /\ \E c1 \in StartCalls(tmon, m), c2 \in StartCalls(tmon, m) :
              /\ c1 < c2
              /\ tmon.calls[c2].overlap
              /\ tmon.calls[c1].pc = "done" /\ tmon.calls[c1].result = "False"
              /\ tmon.calls[c2].pc = "done" /\ tmon.calls[c2].result = "False"

\* A thread that runs _process_data_queue is inside its loop: it takes, or
\* will take, items from the work queue.
Consuming(w) == w.pc \in {"check", "get", "store"}

\* C23: whatever start_monitoring and stop_monitoring calls were made, at
\* most one thread is inside the loop of _process_data_queue.
C23_SingleWorker ==
    Cardinality({i \in 1..Len(threads) : Consuming(threads[i])})
      + (IF Consuming(worker) THEN 1 ELSE 0) <= 1

\* The account decodes to a pool: it exists, a registered program owns it
\* and the account-data parser returns its fields.
DecodesToPool(a) ==
    /\ a.exists
    /\ a.kind = "parsed"
    /\ a.owner \in {JUPITER_PROGRAM_ID, ORCA_PROGRAM_ID, RAYDIUM_PROGRAM_ID}

\* The decoded pool carries a price (Jupiter's price.current_price) and
\* reserves (tokens.*.reserve of Jupiter and Orca).
CarriesPrice(a) == a.owner = JUPITER_PROGRAM_ID /\ a.currentPrice # <<>>
CarriesReserves(a) == a.owner \in {JUPITER_PROGRAM_ID, ORCA_PROGRAM_ID}
PositiveReserves(a) ==
    /\ CarriesReserves(a)
    /\ a.tokenAReserve # <<>> /\ a.tokenBReserve # <<>>
    /\ a.tokenAReserve[1] > 0 /\ a.tokenBReserve[1] > 0

\* C24: the current_price get_price_data returns for a decoded pool is the
\* pool's own price when it carries one, whatever its reserves; else 0 when
\* a reserve is missing or not positive, and else
\* (reserveB / 10^decimalsB) / (reserveA / 10^decimalsA).
C24_PriceSelection ==
    ("price_data" \in DOMAIN decoded /\ DecodesToPool(account))
    => LET price == decoded.price_data.current_price
       IN /\ decoded.price_data.has
          /\ price[2] > 0
          /\ IF CarriesPrice(account)
             THEN price[1] = account.currentPrice[1] * price[2]
             ELSE IF ~PositiveReserves(account)
             THEN price[1] = 0
             ELSE price[1] * account.tokenAReserve[1]
                           * Pow10(account.tokenBDecimals[1])
                  = price[2] * account.tokenBReserve[1]
                             * Pow10(account.tokenADecimals[1])

\* C25: under fair scheduling every stop_monitoring call returns, whatever
\* is on the work queue when it is made.
C25_StopTerminates == (stop.pc # "idle") ~> (stop.pc = "stopped")

\* C28: retry_count never exceeds max_retries; an iteration that succeeds
\* sets it to 0; and an iteration that fails while the monitor runs clears
\* is_running if and only if it is at least the third failed iteration in a
\* row.
C28_RetryBudget ==
    [][/\ wmon'.retry_count <= max_retries
       /\ (wmon'.iterations = wmon.iterations + 1 /\ wmon'.failed_in_a_row = 0)
          => wmon'.retry_count = 0
       /\ (wmon'.iterations = wmon.iterations + 1 /\ wmon.is_running
           /\ wmon'.failed_in_a_row = wmon.failed_in_a_row + 1)
          => (~wmon'.is_running <=> wmon'.failed_in_a_row >= max_retries)]_vars

\* C29: in the result of _parse_transaction_info every parsed inner
\* instruction hangs on the parsed instruction of the top-level position its
\* group names, and every group with a parsed inner instruction whose
\* top-level instruction was parsed hangs on it, whichever earlier top-level
\* instructions are absent from the parsed list.
C29_InnerNesting ==
    bparse.result # <<>>
    => LET tx_info == bparse.input[1]
           instructions == bparse.result[1].instructions
       IN /\ \A i \in 1..Len(instructions) :
                \A j \in 1..Len(instructions[i].inner_instructions) :
                    instructions[i].inner_instructions[j].index = instructions[i].top
          /\ \A g \in 1..Len(tx_info.inner_instructions) :
                LET inner == tx_info.inner_instructions[g]
                IN (/\ tx_info.instructions[inner.index + 1] = "parsed"
                    /\ \E j \in 1..Len(inner.instructions) :
                          inner.instructions[j] = "parsed")
                   => \E i \in 1..Len(instructions) :
                         /\ instructions[i].top = inner.index
                         /\ instructions[i].inner_instructions # <<>>

\* C30: parse_logs on a well-nested log (every invocation line is later
\* followed by the return line of its program, innermost first) returns one
\* record per invocation, each with the lines logged while that invocation
\* was innermost, and ends with an empty call stack at depth 0.
IsReturnLine(log) == Len(log) >= 3 /\ log[1] = "Program" /\ log[2] = "return:"
IsInvokeLine(log) == Len(log) >= 2 /\ log[1] = "Program" /\ ~IsReturnLine(log)

\* The records a well-nested log stands for, in the order of the returns;
\* ok is FALSE when a return line has no open invocation of its program.
RECURSIVE NestedRecords(_, _)
NestedRecords(st, logs) ==
    IF logs = <<>> THEN st
    ELSE LET log == Head(logs)
             n == Len(st.open)
         IN NestedRecords(
                IF IsInvokeLine(log)
                THEN [st EXCEPT !.open = Append(@, [program_id |-> log[2],
                                                    depth |-> n,
                                                    logs |-> <<>>])]
                ELSE IF IsReturnLine(log)
                THEN IF n > 0 /\ st.open[n].program_id = log[3]
                     THEN [st EXCEPT !.open = SubSeq(@, 1, n - 1),
                                     !.closed = Append(@, st.open[n])]
                     ELSE [st EXCEPT !.ok = FALSE]
                ELSE IF n > 0
                THEN [st EXCEPT !.open[n].logs = Append(@, log)]
                ELSE st,
                Tail(logs))

WellNested(logs) ==
    LET st == NestedRecords([ok |-> TRUE, open |-> <<>>, closed |-> <<>>], logs)
    IN st.ok /\ st.open = <<>>

C30_WellNestedLogs ==
    (bparse.result # <<>> /\ WellNested(bparse.input[1]))
    => LET logs == bparse.input[1]
           res == bparse.result[1]
       IN /\ res.parsed_logs =
                NestedRecords([ok |-> TRUE, open |-> <<>>, closed |-> <<>>],
                              logs).closed
          /\ res.call_stack = <<>>
          /\ res.current_depth = 0

=============================================================================
